---- MODULE Spec2Model ----
(***************************************************************************)
(* Model of the bambu-rs device client.                                    *)
(*                                                                         *)
(* Part 1: the MQTT correlation core (src/src/mqtt.rs): one MqttClient,    *)
(* the caller that drives its API (start, stop, get_version, set_led), the *)
(* background event pumps spawned by start(), the one-shot channels and    *)
(* the request queue of the MQTT transport handle.                         *)
(*                                                                         *)
(* MqttClient's API takes &mut self, so one caller runs one call at a      *)
(* time; a call's future may be dropped at a suspension point (abandoned). *)
(* Each pump is a task of its own and interleaves freely with the caller.  *)
(* Shared state is guarded by mutexes, so each lock-protected section is   *)
(* one step.                                                               *)
(*                                                                         *)
(* Part 2: the FTPS file listing (src/src/file.rs, src/src/file/ftp.rs):   *)
(* one FileClient::get_files call, the control connection, the data        *)
(* connection, and a server that may answer anything.                      *)
(*                                                                         *)
(* Part 3: the FTP response decoder (src/src/file/ftp/codec.rs): one       *)
(* receive buffer and the calls of FtpCodec::decode on it.                 *)
(*                                                                         *)
(* Part 4: the camera stream decoder (src/src/camera/codec.rs): a byte     *)
(* stream fed to JpegCodec::decode one byte at a time.                     *)
(*                                                                         *)
(* Part 5: the camera packet encoder (src/src/camera/codec.rs): packets    *)
(* are encoded into a buffer, which is then decoded by JpegCodec::decode.  *)
(*                                                                         *)
(* Part 6: the camera client (src/src/camera.rs): one call of              *)
(* connect_and_stream_codec and the stream of packets it returns.          *)
(*                                                                         *)
(* Part 7: the JSON text of commands (src/src/mqtt/command.rs and its      *)
(* submodules): one Command value handed to serde_json::to_vec.            *)
(*                                                                         *)
(* Part 8: one line of a directory listing                                 *)
(* (src/src/file/ftp/metadata.rs): one call of FileMetadata::from_str.     *)
(*                                                                         *)
(* Each part has its own variables and its own specification; the          *)
(* variables of the other parts stay at their idle values.                 *)
(***************************************************************************)
EXTENDS Naturals, Sequences, FiniteSets, TLC

\* Bound of the model: the number of calls of start(), get_version() and
\* set_led() the application makes (stop() only sets a flag and is not counted).
MaxOps == 4

\* A helper call before the first start() aborts the caller, so at most
\* MaxOps - 1 sequence ids are ever inserted and published.
MaxStarts == MaxOps
MaxCalls == MaxOps - 1

Gens == 1..MaxStarts
Calls == 1..MaxCalls

VARIABLES
    client,             \* self.client: 0 is None, g is the handle made by the g-th start()
    stop_flag,          \* self.stop_flag
    inflight_commands,  \* self.inflight_commands: sequence id -> the call holding the receiver
    sequence_id,        \* self.sequence_id
    pump,               \* per start(): position of the spawned pump task
    connected_tx,       \* per pump: TRUE while its local connected_tx is Some
    connected,          \* per start(): state of the connected one-shot channel
    calls,              \* per helper call: its sequence id and its position
    slot,               \* per helper call: content of its one-shot channel
    requests,           \* per transport handle: requests handed to the AsyncClient
    caller,             \* the task owning the MqttClient: the call it is running
    result              \* what the call the caller just completed returned

vars == <<client, stop_flag, inflight_commands, sequence_id, pump, connected_tx,
          connected, calls, slot, requests, caller, result>>

VARIABLES
    hostname,           \* FileClient.hostname / FtpClient.hostname
    ftp_pc,             \* position of get_files() in the FTPS dialogue
    control,            \* what was written to and read from the control connection
    socket_addr,        \* list_files: the address taken from the PASV reply
    data_framed,        \* list_files: the data connection
    lines,              \* list_files: number of entries parsed so far
    files               \* outcome of get_files()

ftp_vars == <<hostname, ftp_pc, control, socket_addr, data_framed, lines, files>>

NoAddr == [ip |-> "", port |-> 0]

\* No get_files() call is made.
FtpIdle ==
    /\ hostname = ""
    /\ ftp_pc = "off"
    /\ control = << >>
    /\ socket_addr = NoAddr
    /\ data_framed = "none"
    /\ lines = 0
    /\ files = "none"

\* The variables outside part 1, and their idle values.
VARIABLES
    src,                \* FtpCodec::decode: the receive buffer, a sequence of bytes
    line,               \* FtpCodec::decode: the line the last call split off
    response            \* what the last call of FtpCodec::decode returned

codec_vars == <<src, line, response>>

NoResponse == [kind |-> "NotCalled", code |-> 0, message |-> << >>, ip |-> << >>, port |-> 0]

\* No buffer is decoded.
CodecIdle ==
    /\ src = << >>
    /\ line = << >>
    /\ response = NoResponse

VARIABLES
    segments,           \* the camera's byte stream: frames and the garbage between them
    fed,                \* number of bytes of the stream handed to the decoder so far
    jpeg_src,           \* JpegCodec::decode: the receive buffer (src)
    packets             \* the packets decode has emitted, in order

jpeg_vars == <<segments, fed, jpeg_src, packets>>

\* No camera stream is decoded.
JpegIdle ==
    /\ segments = << >>
    /\ fed = 0
    /\ jpeg_src = << >>
    /\ packets = << >>

VARIABLES
    outbox,             \* the packets handed to JpegCodec::encode, in order
    encoded,            \* number of packets of the outbox encoded so far
    dst,                \* JpegCodec::encode: the output buffer
    delivered           \* TRUE once the output buffer has reached the decoder

enc_vars == <<outbox, encoded, dst, delivered>>

\* Nothing is encoded.
EncIdle ==
    /\ outbox = << >>
    /\ encoded = 0
    /\ dst = << >>
    /\ delivered = FALSE

VARIABLES
    cam_hostname,       \* CameraClient.hostname
    cam_access_code,    \* the access code CameraClient::new was given
    cam_pc,             \* position of connect_and_stream_codec and of the stream it returned
    tls_written,        \* the bytes written to the TLS stream
    tls_flushed,        \* number of those bytes flushed
    cam_result          \* what connect_and_stream_codec returned

cam_vars == <<cam_hostname, cam_access_code, cam_pc, tls_written, tls_flushed, cam_result>>

\* No camera connection is made.
CamIdle ==
    /\ cam_hostname = ""
    /\ cam_access_code = << >>
    /\ cam_pc = "off"
    /\ tls_written = << >>
    /\ tls_flushed = 0
    /\ cam_result = "none"

VARIABLES
    ser_command,        \* the Command value handed to serde_json::to_vec
    ser_payload         \* the JSON text written for it

ser_vars == <<ser_command, ser_payload>>

\* Nothing is serialized.
NoCommand == [root |-> "none", variant |-> "none", sequence_id |-> "", fields |-> << >>]

NoPayload == [root |-> "none", body |-> << >>]

SerIdle ==
    /\ ser_command = NoCommand
    /\ ser_payload = NoPayload

VARIABLES
    current_year,       \* chrono::Local::now().year()
    meta_tokens,        \* the tokens the server wrote on the line
    meta_line,          \* the line handed to FileMetadata::from_str
    meta_result         \* what from_str returned

meta_vars == <<current_year, meta_tokens, meta_line, meta_result>>

NotParsed == [kind |-> "none"]

\* No listing line is parsed.
MetaIdle ==
    /\ current_year = 0
    /\ meta_tokens = << >>
    /\ meta_line = << >>
    /\ meta_result = NotParsed

outside_mqtt == <<ftp_vars, codec_vars, jpeg_vars, enc_vars, cam_vars, ser_vars, meta_vars>>

OutsideMqttIdle == FtpIdle /\ CodecIdle /\ JpegIdle /\ EncIdle /\ CamIdle /\ SerIdle /\ MetaIdle

----------------------------------------------------------------------------
\* Sequence ids: a u64 counter formatted decimally.

Digit == <<"0", "1", "2", "3", "4", "5", "6", "7", "8", "9">>

RECURSIVE ToDecimal(_)
ToDecimal(n) ==
    IF n < 10 THEN Digit[n + 1]
    ELSE ToDecimal(n \div 10) \o Digit[(n % 10) + 1]

\* Mutant: every call returns the id of the first.
NextSequenceIdResultFixed(c) == ToDecimal(0)

\* next_sequence_id: the id returned for counter value c, and the counter afterwards.
NextSequenceIdResult(c) == ToDecimal(c)

\* Mutant: the counter is not incremented.
NextSequenceIdCounterStuck(c) == c

NextSequenceIdCounter(c) == c + 1

----------------------------------------------------------------------------
\* Commands (src/src/mqtt/command.rs and its submodules) and their JSON text.
\*
\* A Command value is written as its root (the variant of Command), the variant
\* of the inner command enum, the sequence id, and the declared fields of that
\* variant with their values. A JSON object is written as the sequence of its
\* members in the order serde_json writes them; a JSON text may repeat a key.

Str(s) == [type |-> "string", text |-> s]

Num(n) == [type |-> "number", text |-> ToDecimal(n)]

Member(key, value) == [key |-> key, value |-> value]

Command(root, variant, seq, fields) ==
    [root |-> root, variant |-> variant, sequence_id |-> seq, fields |-> fields]

GetVersion(seq) == Command("info", "GetVersion", seq, << >>)

Pause(seq) == Command("print", "Pause", seq, << >>)

Resume(seq) == Command("print", "Resume", seq, << >>)

StopPrint(seq) == Command("print", "Stop", seq, << >>)

PrintSpeed(seq, param) == Command("print", "PrintSpeed", seq, <<Member("param", Str(param))>>)

GcodeLine(seq, param) == Command("print", "GcodeLine", seq, <<Member("param", Str(param))>>)

ExtrusionCalibrationGet(seq, filament_id, nozzle_diameter) ==
    Command("print", "ExtrusionCalibrationGet", seq,
            <<Member("filament_id", Str(filament_id)),
              Member("nozzle_diameter", Str(nozzle_diameter))>>)

PushAll(seq, push_target, version) ==
    Command("pushing", "PushAll", seq,
            <<Member("push_target", Num(push_target)), Member("version", Num(version))>>)

PushStart(seq) == Command("pushing", "Start", seq, << >>)

LedCtrl(seq, led_mode, led_on_time, led_off_time, loop_times, interval_time) ==
    Command("system", "LedCtrl", seq,
            <<Member("led_node", Str("chamber_light")),
              Member("led_mode", Str(led_mode)),
              Member("led_on_time", Num(led_on_time)),
              Member("led_off_time", Num(led_off_time)),
              Member("loop_times", Num(loop_times)),
              Member("interval_time", Num(interval_time))>>)

GetAccessories(seq) ==
    Command("system", "GetAccessories", seq, <<Member("accessory_type", Str("none"))>>)

\* #[serde(rename = "...")] of the variants of the command enums.
VariantName ==
    [GetVersion |-> "get_version", Pause |-> "pause", Resume |-> "resume",
     Stop |-> "stop", PrintSpeed |-> "print_speed", GcodeLine |-> "gcode_line",
     ExtrusionCalibrationGet |-> "extrusion_cali_get", PushAll |-> "pushall",
     Start |-> "start", LedCtrl |-> "ledctrl", GetAccessories |-> "get_accessories"]

\* What the content of a variant writes in front of its fields. The struct
\* LedCtrl carries #[serde(tag = "command")] itself: a struct with that
\* attribute writes its own name under the key before its fields. The other
\* variants are unit or struct variants and write their fields only.
StructTag(variant) ==
    IF variant = "LedCtrl" THEN <<Member("command", Str("LedCtrl"))>> ELSE << >>

\* The command enums are internally tagged (#[serde(tag = "command")]): the
\* member "command" with the variant's name, then what the content writes.
SerializeCommand(c) ==
    <<Member("command", Str(VariantName[c.variant]))>> \o StructTag(c.variant) \o c.fields

\* The payload structs: sequence_id, then the flattened command.
SerializePayload(c) ==
    <<Member("sequence_id", Str(c.sequence_id))>> \o SerializeCommand(c)

\* serde_json::to_vec(&command): Command is untagged and each of its variants
\* has the one field named after the root.
ToVec(c) == [root |-> c.root, body |-> SerializePayload(c)]

\* The command get_version() and set_led(on) build for the sequence id seq.
HelperCommand(helper, seq, on) ==
    IF helper = "get_version" THEN GetVersion(seq)
    ELSE LedCtrl(seq, IF on THEN "on" ELSE "off", 500, 500, 0, 0)

\* format!("device/{}/request", self.serial)
RequestTopic(serial) == <<"device", serial, "request">>

\* The serial the client was built with.
Serial == "SERIAL"

----------------------------------------------------------------------------
\* Messages.

NoMsg == [variant |-> "none", command |-> "", sequence_id |-> ""]

\* Payloads the broker may deliver: a JSON object with one root key, a command
\* and a sequence id. Root "bogus" stands for every payload serde rejects.
PayloadShapes ==
    {<<"print", "push_status">>, <<"print", "gcode_line">>,
     <<"info", "get_version">>, <<"system", "ledctrl">>}

PayloadSeqs == {ToDecimal(n) : n \in 0..(MaxCalls - 1)} \cup {"42"}

Undecodable == [root |-> "bogus", command |-> "", sequence_id |-> ""]

Payloads ==
    {[root |-> sh[1], command |-> sh[2], sequence_id |-> s] :
        sh \in PayloadShapes, s \in PayloadSeqs} \cup {Undecodable}

\* serde_json::from_slice::<Message>: the root key selects the variant.
Decode(p) ==
    IF p.root \in {"print", "info", "system"}
    THEN [ok |-> TRUE,
          msg |-> [variant |-> p.root, command |-> p.command,
                   sequence_id |-> p.sequence_id]]
    ELSE [ok |-> FALSE, msg |-> NoMsg]

\* Message::sequence_id
MessageSequenceId(m) == m.sequence_id

\* Mutant: the push guard is missing, every decoded message is routed.
IsPushStatusNever(m) == FALSE

\* The guard of the first match arm of the Publish handler.
IsPushStatus(m) == m.variant = "print" /\ m.command = "push_status"

\* TryFrom<Message> for Info / System: the variant a helper downcasts to.
ExpectedVariant(helper) == IF helper = "get_version" THEN "info" ELSE "system"

----------------------------------------------------------------------------
\* The inflight table: HashMap<SmolStr, oneshot::Sender<Message>>.

EmptyTable == [s \in {} |-> 0]

\* HashMap::insert
TableInsert(tbl, seq, k) ==
    [s \in DOMAIN tbl \cup {seq} |-> IF s = seq THEN k ELSE tbl[s]]

\* Mutant: the entry is looked up but left in the table.
TableRemoveKeeps(tbl, seq) == tbl

\* HashMap::remove: the table afterwards.
TableRemove(tbl, seq) == [s \in DOMAIN tbl \ {seq} |-> tbl[s]]

----------------------------------------------------------------------------
\* One-shot channels and tasks.

\* The receiver of call k's channel is alive while the call's future is.
RxAlive(k) == calls[k].pc \in {"insert", "publish", "await"}

\* The connected channel of a start(): "pending" (empty), "ok" / "err" (a value
\* was sent), "closed" (the receiver is gone: start() returned or panicked, or its
\* future was dropped). The receiver is alive until then.
ConnectedRxAlive(g) == connected[g] \in {"pending", "ok", "err"}

\* The event loop (the receiving end of the request queue) lives in the pump task.
EventLoopAlive(g) == pump[g] = "poll"

NoCall == [seq |-> "", pc |-> "unused", on |-> FALSE]

NCalls == Cardinality({k \in Calls : calls[k].pc # "unused"})

Helpers == {"get_version", "set_led"}

NoResult == [op |-> "none", status |-> "none", reply |-> NoMsg]

Returned(op, status) == [op |-> op, status |-> status, reply |-> NoMsg]

----------------------------------------------------------------------------
Init ==
    /\ client = 0
    /\ stop_flag = FALSE
    /\ inflight_commands = EmptyTable
    /\ sequence_id = 0
    /\ pump = [g \in Gens |-> "unspawned"]
    /\ connected_tx = [g \in Gens |-> FALSE]
    /\ connected = [g \in Gens |-> "unused"]
    /\ calls = [k \in Calls |-> NoCall]
    /\ slot = [k \in Calls |-> NoMsg]
    /\ requests = [g \in Gens |-> << >>]
    /\ caller = "idle"
    /\ result = NoResult

----------------------------------------------------------------------------
\* start(): up to the spawn of the pump.
Start ==
    /\ caller = "idle"
    /\ client + NCalls < MaxOps
    /\ LET g == client + 1 IN
        /\ client' = g
        /\ stop_flag' = FALSE
        /\ pump' = [pump EXCEPT ![g] = "poll"]
        /\ connected_tx' = [connected_tx EXCEPT ![g] = TRUE]
        /\ connected' = [connected EXCEPT ![g] = "pending"]
    /\ caller' = "start"
    /\ result' = NoResult
    /\ UNCHANGED <<inflight_commands, sequence_id, calls, slot, requests>>

\* start(): connected_rx.await.unwrap() and the match on its value.
StartReturn ==
    /\ caller = "start"
    /\ LET g == client IN
        \/ /\ connected[g] = "ok"
           /\ connected' = [connected EXCEPT ![g] = "closed"]
           /\ result' = Returned("start", "Ok")
           /\ caller' = "idle"
        \/ /\ connected[g] = "err"
           /\ connected' = [connected EXCEPT ![g] = "closed"]
           /\ result' = Returned("start", "Err")
           /\ caller' = "idle"
        \/ \* the sender was dropped unused: RecvError, and unwrap panics
           /\ connected[g] = "pending"
           /\ ~connected_tx[g]
           /\ connected' = [connected EXCEPT ![g] = "closed"]
           /\ result' = Returned("start", "panicked")
           /\ caller' = "panicked"
    /\ UNCHANGED <<client, stop_flag, inflight_commands, sequence_id, pump,
                   connected_tx, calls, slot, requests>>

\* The caller drops the future of start() while it waits.
StartAbandon ==
    /\ caller = "start"
    /\ connected' = [connected EXCEPT ![client] = "closed"]
    /\ result' = Returned("start", "abandoned")
    /\ caller' = "idle"
    /\ UNCHANGED <<client, stop_flag, inflight_commands, sequence_id, pump,
                   connected_tx, calls, slot, requests>>

\* stop(): sets the flag and returns Ok(()).
Stop ==
    /\ caller = "idle"
    /\ stop_flag' = TRUE
    /\ result' = Returned("stop", "Ok")
    /\ UNCHANGED <<client, inflight_commands, sequence_id, pump, connected_tx,
                   connected, calls, slot, requests, caller>>

----------------------------------------------------------------------------
\* The event pump (the task spawned by start()). Each action is one arm of the
\* select! / match on the polled event, taken while the pump is in its loop.

Subscribe == [req |-> "subscribe", seq |-> ""]

Disconnect == [req |-> "disconnect", seq |-> ""]

\* client.publish(topic, qos, false, payload) of the command carrying seq
Publish(seq) == [req |-> "publish", seq |-> seq, topic |-> RequestTopic(Serial)]

Subscribed(g) == \E i \in 1..Len(requests[g]) : requests[g][i] = Subscribe

\* Mutant: the ConnAck arm signals the waiter without subscribing.
ConnAckRequestsNoSubscribe(q) == q

\* The request queue after a successful client.subscribe(...) on CONNACK.
ConnAckRequests(q) == Append(q, Subscribe)

\* The request queue after the statement that follows the pump's loop:
\* let _ = client.disconnect().await
AfterLoopRequests(q) == Append(q, Disconnect)

\* Mutant: leaving the loop also clears the inflight table.
PumpBreakNotifies(g) ==
    /\ pump' = [pump EXCEPT ![g] = "done"]
    /\ requests' = [requests EXCEPT ![g] = AfterLoopRequests(@)]
    /\ connected_tx' = [connected_tx EXCEPT ![g] = FALSE]
    /\ inflight_commands' = EmptyTable
    /\ UNCHANGED slot

\* A break out of the loop: the rest of the task runs (the disconnect), then the
\* task ends, dropping the event loop and connected_tx. The inflight table and
\* the waiters' channels are not touched.
PumpBreak(g) ==
    /\ pump' = [pump EXCEPT ![g] = "done"]
    /\ requests' = [requests EXCEPT ![g] = AfterLoopRequests(@)]
    /\ connected_tx' = [connected_tx EXCEPT ![g] = FALSE]
    /\ UNCHANGED <<inflight_commands, slot>>

\* Packet::ConnAck. A connection is acknowledged once; subscribe_ok is the outcome
\* of client.subscribe(...).await.
PumpConnAck(g, subscribe_ok) ==
    /\ pump[g] = "poll"
    /\ ~Subscribed(g)
    /\ IF ~subscribe_ok
       THEN \* eprintln and break: nothing is sent through connected_tx
            /\ PumpBreak(g)
            /\ UNCHANGED connected
       ELSE /\ requests' = [requests EXCEPT ![g] = ConnAckRequests(@)]
            /\ UNCHANGED <<inflight_commands, slot>>
            /\ IF connected_tx[g]
               THEN /\ connected_tx' = [connected_tx EXCEPT ![g] = FALSE]
                    /\ IF ConnectedRxAlive(g)
                       THEN /\ connected' = [connected EXCEPT ![g] = "ok"]
                            /\ UNCHANGED pump
                       ELSE \* tx.send(..) returns Err: unwrap panics
                            /\ pump' = [pump EXCEPT ![g] = "panicked"]
                            /\ UNCHANGED connected
               ELSE UNCHANGED <<connected_tx, connected, pump>>
    /\ UNCHANGED <<client, stop_flag, sequence_id, calls, caller, result>>

\* Mutant: a payload that fails to decode ends the pump.
AfterDecodeErrorStops == "done"

\* The position of the pump after a payload that failed to decode, after a reply
\* with an unknown sequence id, and after a push.
AfterDecodeError == "poll"

\* Mutant: a reply with an unknown sequence id ends the pump.
AfterUnknownSequenceIdStops == "done"

AfterUnknownSequenceId == "poll"

AfterPush == "poll"

\* Packet::Publish. The broker delivers publishes only on a subscription.
PumpPublish(g, p) ==
    /\ pump[g] = "poll"
    /\ Subscribed(g)
    /\ LET d == Decode(p) IN
        IF ~d.ok
        THEN /\ pump' = [pump EXCEPT ![g] = AfterDecodeError]
             /\ UNCHANGED <<inflight_commands, slot>>
        ELSE IF IsPushStatus(d.msg)
        THEN /\ pump' = [pump EXCEPT ![g] = AfterPush]
             /\ UNCHANGED <<inflight_commands, slot>>
        ELSE LET s == MessageSequenceId(d.msg) IN
             IF s \in DOMAIN inflight_commands
             THEN LET k == inflight_commands[s] IN
                  /\ inflight_commands' = TableRemove(inflight_commands, s)
                  /\ IF RxAlive(k)
                     THEN /\ slot' = [slot EXCEPT ![k] = d.msg]
                          /\ UNCHANGED pump
                     ELSE \* inflight_command.send(msg) returns Err: unwrap panics
                          /\ pump' = [pump EXCEPT ![g] = "panicked"]
                          /\ UNCHANGED slot
             ELSE /\ pump' = [pump EXCEPT ![g] = AfterUnknownSequenceId]
                  /\ UNCHANGED <<inflight_commands, slot>>
    /\ UNCHANGED <<client, stop_flag, sequence_id, connected_tx, connected, calls,
                   requests, caller, result>>

\* Any other incoming packet, and Event::Outgoing.
PumpIgnore(g) ==
    /\ pump[g] = "poll"
    /\ UNCHANGED vars

\* Mutant: the Err arm never signals the connect waiter.
ErrSignalsNever(tx_is_some) == FALSE

\* Whether the Err arm signals the connect waiter, given whether connected_tx is Some.
ErrSignals(tx_is_some) == tx_is_some

\* Err(e) from event_loop.poll().
PumpError(g) ==
    /\ pump[g] = "poll"
    /\ IF ErrSignals(connected_tx[g])
       THEN IF ConnectedRxAlive(g)
            THEN /\ connected' = [connected EXCEPT ![g] = "err"]
                 /\ PumpBreak(g)
            ELSE \* tx.send(..) returns Err: unwrap panics
                 /\ pump' = [pump EXCEPT ![g] = "panicked"]
                 /\ connected_tx' = [connected_tx EXCEPT ![g] = FALSE]
                 /\ UNCHANGED <<connected, requests, inflight_commands, slot>>
       ELSE /\ PumpBreak(g)
            /\ UNCHANGED connected
    /\ UNCHANGED <<client, stop_flag, sequence_id, calls, caller, result>>

\* The stop-flag branch of select!: a tick of the interval finds the flag set.
PumpStopObserved(g) ==
    /\ pump[g] = "poll"
    /\ stop_flag
    /\ PumpBreak(g)
    /\ UNCHANGED <<client, stop_flag, sequence_id, connected, calls, caller, result>>

----------------------------------------------------------------------------
\* get_version() / set_led(): next_sequence_id, then send_command_and_wait.

\* Mutant: the command is published before its entry is inserted.
SendStepsPublishFirst == <<"publish", "insert", "await">>

\* The statements of send_raw_command_and_wait that touch shared state, in order.
SendSteps == <<"insert", "publish", "await">>

FirstSendStep == SendSteps[1]

NextSendStep(pc) ==
    LET i == CHOOSE j \in 1..Len(SendSteps) : SendSteps[j] = pc
    IN IF i < Len(SendSteps) THEN SendSteps[i + 1] ELSE "finished"

\* The call the caller is running (calls are numbered in the order they are made).
CurrentCall == NCalls

\* The helper builds its command (next_sequence_id), serializes it, creates the
\* one-shot channel and takes the transport handle (self.client...unwrap()).
HelperCall(helper, on) ==
    /\ caller = "idle"
    /\ client + NCalls < MaxOps
    /\ LET k == NCalls + 1
           id == NextSequenceIdResult(sequence_id)
       IN /\ sequence_id' = NextSequenceIdCounter(sequence_id)
          /\ IF client = 0
             THEN \* unwrap of None panics
                  /\ calls' = [calls EXCEPT ![k] = [seq |-> id, pc |-> "finished", on |-> on]]
                  /\ result' = Returned(helper, "panicked")
                  /\ caller' = "panicked"
             ELSE /\ calls' = [calls EXCEPT ![k] = [seq |-> id, pc |-> FirstSendStep, on |-> on]]
                  /\ result' = NoResult
                  /\ caller' = helper
    /\ UNCHANGED <<client, stop_flag, inflight_commands, pump, connected_tx,
                   connected, slot, requests>>

\* inflight_commands.insert(sequence_id, tx)
SendInsert ==
    /\ caller \in Helpers
    /\ LET k == CurrentCall IN
        /\ calls[k].pc = "insert"
        /\ inflight_commands' = TableInsert(inflight_commands, calls[k].seq, k)
        /\ calls' = [calls EXCEPT ![k].pc = NextSendStep("insert")]
    /\ UNCHANGED <<client, stop_flag, sequence_id, pump, connected_tx, connected,
                   slot, requests, caller, result>>

\* client.publish(topic, qos, false, payload).await?
SendPublish ==
    /\ caller \in Helpers
    /\ LET k == CurrentCall IN
        /\ calls[k].pc = "publish"
        /\ IF EventLoopAlive(client)
           THEN /\ requests' = [requests EXCEPT
                                   ![client] = Append(@, Publish(calls[k].seq))]
                /\ calls' = [calls EXCEPT ![k].pc = NextSendStep("publish")]
                /\ UNCHANGED <<caller, result>>
           ELSE \* the request queue is closed: the error is returned
                /\ calls' = [calls EXCEPT ![k].pc = "finished"]
                /\ result' = Returned(caller, "Err")
                /\ caller' = "idle"
                /\ UNCHANGED requests
    /\ UNCHANGED <<client, stop_flag, inflight_commands, sequence_id, pump,
                   connected_tx, connected, slot>>

\* rx.await.unwrap(), then the helper's T::try_from(message).unwrap()
SendReturn ==
    /\ caller \in Helpers
    /\ LET k == CurrentCall IN
        /\ calls[k].pc = "await"
        /\ slot[k] # NoMsg
        /\ calls' = [calls EXCEPT ![k].pc = "finished"]
        /\ slot' = [slot EXCEPT ![k] = NoMsg]
        /\ IF slot[k].variant = ExpectedVariant(caller)
           THEN /\ result' = [op |-> caller, status |-> "Ok", reply |-> slot[k]]
                /\ caller' = "idle"
           ELSE /\ result' = Returned(caller, "panicked")
                /\ caller' = "panicked"
    /\ UNCHANGED <<client, stop_flag, inflight_commands, sequence_id, pump,
                   connected_tx, connected, requests>>

\* Mutant: a future that is dropped takes its entry out of the table.
SendAbandonRemoves ==
    /\ caller \in Helpers
    /\ LET k == CurrentCall IN
        /\ calls[k].pc = "await"
        /\ calls' = [calls EXCEPT ![k].pc = "finished"]
        /\ slot' = [slot EXCEPT ![k] = NoMsg]
        /\ inflight_commands' = TableRemove(inflight_commands, calls[k].seq)
    /\ result' = Returned(caller, "abandoned")
    /\ caller' = "idle"
    /\ UNCHANGED <<client, stop_flag, sequence_id, pump,
                   connected_tx, connected, requests>>

\* The caller drops the helper's future while it waits for the reply.
SendAbandon ==
    /\ caller \in Helpers
    /\ LET k == CurrentCall IN
        /\ calls[k].pc = "await"
        /\ calls' = [calls EXCEPT ![k].pc = "finished"]
        /\ slot' = [slot EXCEPT ![k] = NoMsg]
    /\ result' = Returned(caller, "abandoned")
    /\ caller' = "idle"
    /\ UNCHANGED <<client, stop_flag, inflight_commands, sequence_id, pump,
                   connected_tx, connected, requests>>

----------------------------------------------------------------------------
Next ==
    \/ Start /\ UNCHANGED outside_mqtt
    \/ StartReturn /\ UNCHANGED outside_mqtt
    \/ StartAbandon /\ UNCHANGED outside_mqtt
    \/ Stop /\ UNCHANGED outside_mqtt
    \/ \E helper \in Helpers : HelperCall(helper, FALSE) /\ UNCHANGED outside_mqtt
    \/ SendInsert /\ UNCHANGED outside_mqtt
    \/ SendPublish /\ UNCHANGED outside_mqtt
    \/ SendReturn /\ UNCHANGED outside_mqtt
    \/ SendAbandon /\ UNCHANGED outside_mqtt
    \/ \E g \in Gens, ok \in BOOLEAN : PumpConnAck(g, ok) /\ UNCHANGED outside_mqtt
    \/ \E g \in Gens, p \in Payloads : PumpPublish(g, p) /\ UNCHANGED outside_mqtt
    \/ \E g \in Gens : PumpIgnore(g) /\ UNCHANGED outside_mqtt
    \/ \E g \in Gens : PumpError(g) /\ UNCHANGED outside_mqtt
    \/ \E g \in Gens : PumpStopObserved(g) /\ UNCHANGED outside_mqtt

\* The initial states of Part 1: the other parts are idle.
InitMqtt == Init /\ OutsideMqttIdle

Spec == InitMqtt /\ [][Next]_<<vars, outside_mqtt>>

\* The pump is a spawned task that the runtime keeps scheduling: its interval
\* ticks, so a stop flag that stays set is eventually seen.
FairSpec == Spec /\ \A g \in Gens : WF_vars(PumpStopObserved(g))

\* Spec leaves out the text of the commands: the application calls
\* get_version() and set_led(false), and what serde_json::to_vec writes is not
\* kept. LedSpec keeps it: each helper call records the Command it built and
\* the payload serialized from it, which is the payload handed to publish, and
\* set_led is called with both arguments.
Serialize(helper, on) ==
    /\ ser_command' = HelperCommand(helper, NextSequenceIdResult(sequence_id), on)
    /\ ser_payload' = ToVec(ser_command')

\* The values of the argument `on`; get_version takes none.
SetLedArgs(helper) == IF helper = "set_led" THEN BOOLEAN ELSE {FALSE}

outside_led == <<ftp_vars, codec_vars, jpeg_vars, enc_vars, cam_vars, meta_vars>>

LedNext ==
    \/ Start /\ UNCHANGED outside_mqtt
    \/ StartReturn /\ UNCHANGED outside_mqtt
    \/ StartAbandon /\ UNCHANGED outside_mqtt
    \/ Stop /\ UNCHANGED outside_mqtt
    \/ \E helper \in Helpers : \E on \in SetLedArgs(helper) :
          HelperCall(helper, on) /\ Serialize(helper, on) /\ UNCHANGED outside_led
    \/ SendInsert /\ UNCHANGED outside_mqtt
    \/ SendPublish /\ UNCHANGED outside_mqtt
    \/ SendReturn /\ UNCHANGED outside_mqtt
    \/ SendAbandon /\ UNCHANGED outside_mqtt
    \/ \E g \in Gens, ok \in BOOLEAN : PumpConnAck(g, ok) /\ UNCHANGED outside_mqtt
    \/ \E g \in Gens, p \in Payloads : PumpPublish(g, p) /\ UNCHANGED outside_mqtt
    \/ \E g \in Gens : PumpIgnore(g) /\ UNCHANGED outside_mqtt
    \/ \E g \in Gens : PumpError(g) /\ UNCHANGED outside_mqtt
    \/ \E g \in Gens : PumpStopObserved(g) /\ UNCHANGED outside_mqtt

LedSpec == InitMqtt /\ [][LedNext]_<<vars, outside_mqtt>>

----------------------------------------------------------------------------
\* Properties.

\* The message a payload denotes, and whether the pump routes it: it decodes to
\* one of the three reply variants and is not a print/push_status.
ReplyOf(p) == [variant |-> p.root, command |-> p.command, sequence_id |-> p.sequence_id]

Routable(p) ==
    /\ p.root \in {"print", "info", "system"}
    /\ ~(p.root = "print" /\ p.command = "push_status")

IsPush(p) == p.root = "print" /\ p.command = "push_status"

Published(g, seq) ==
    \E i \in 1..Len(requests[g]) :
        requests[g][i].req = "publish" /\ requests[g][i].seq = seq

Polling == {g \in Gens : pump[g] = "poll"}

HasEntry(k) ==
    /\ calls[k].seq \in DOMAIN inflight_commands
    /\ inflight_commands[calls[k].seq] = k

\* C1. Reply routing: when a pump handles a PUBLISH that decodes to a message
\* other than a print/push_status and whose sequence id S is a key of the inflight
\* table, the entry for S is absent afterwards, every other entry is kept, the
\* waiter registered for S (while its receiver is alive) holds exactly the decoded
\* message, and no other waiter's channel changes.
C1_ReplyRouting ==
    [][\A s \in DOMAIN inflight_commands :
        \A g \in Polling :
        \A p \in {q \in Payloads : q.sequence_id = s /\ Routable(q)} :
        PumpPublish(g, p) =>
        LET k == inflight_commands[s] IN
            /\ s \notin DOMAIN inflight_commands'
            /\ \A t \in DOMAIN inflight_commands \ {s} :
                  t \in DOMAIN inflight_commands'
                  /\ inflight_commands'[t] = inflight_commands[t]
            /\ (RxAlive(k) => slot'[k] = ReplyOf(p))
            /\ \A j \in Calls \ {k} : slot'[j] = slot[j]]_vars

\* A waiting call holds the reply carrying its own sequence id, and its entry is gone.
C1_Witness ==
    \E k \in Calls :
        /\ calls[k].pc = "await"
        /\ slot[k] # NoMsg
        /\ slot[k].sequence_id = calls[k].seq
        /\ calls[k].seq \notin DOMAIN inflight_commands

\* C2. A PUBLISH that decodes to a print/push_status changes neither the inflight
\* table nor any waiter's channel, whatever sequence id it carries, and the pump
\* stays in its loop.
C2_PushNeverMatched ==
    [][\A g \in Polling :
        \/ /\ inflight_commands' = inflight_commands
           /\ slot' = slot
           /\ calls' = calls
           /\ pump' = pump
        \/ \A p \in {q \in Payloads : IsPush(q)} : ~PumpPublish(g, p)]_vars

\* A pump is subscribed and polling while a call with an inflight entry waits: a
\* push carrying that call's sequence id is handled in this state and leaves it.
C2_Witness ==
    \E g \in Gens, k \in Calls :
        /\ pump[g] = "poll"
        /\ Subscribed(g)
        /\ calls[k].pc = "await"
        /\ slot[k] = NoMsg
        /\ HasEntry(k)
        /\ ENABLED PumpPublish(g, [root |-> "print", command |-> "push_status",
                                   sequence_id |-> calls[k].seq])

\* C3. Insertion precedes publish: for every call whose command has been handed
\* to publish and which still waits without a reply, the inflight table holds the
\* call's entry, so that a reply handled from then on finds it.
C3_InsertPrecedesPublish ==
    \A k \in Calls, g \in Gens :
        (Published(g, calls[k].seq) /\ RxAlive(k) /\ slot[k] = NoMsg) => HasEntry(k)

C3_Witness ==
    \E k \in Calls, g \in Gens :
        /\ Published(g, calls[k].seq)
        /\ calls[k].pc = "await"
        /\ slot[k] = NoMsg
        /\ HasEntry(k)
        /\ pump[g] = "poll"

\* C4. When start() has returned Ok, the pump of that start() has issued the
\* subscribe and no command has been handed to the transport handle yet; requests
\* are only ever appended, so every command published afterwards is ordered after
\* the subscribe request.
C4_StartOkAfterSubscribe ==
    /\ [](result = Returned("start", "Ok") =>
            /\ Subscribed(client)
            /\ \A i \in 1..Len(requests[client]) : requests[client][i].req # "publish")
    /\ [][\A g \in Gens :
            \/ requests'[g] = requests[g]
            \/ /\ Len(requests'[g]) = Len(requests[g]) + 1
               /\ SubSeq(requests'[g], 1, Len(requests[g])) = requests[g]]_vars

\* A command was published through a handle whose start() returned: it follows
\* the subscribe in the queue.
C4_Witness ==
    \E g \in Gens : \E i \in 1..Len(requests[g]) :
        /\ requests[g][i].req = "publish"
        /\ i > 1
        /\ requests[g][1] = Subscribe
        /\ connected[g] = "closed"

C6_StopLeadsToExit ==
    \A g \in Gens : (stop_flag /\ pump[g] = "poll") ~> (pump[g] # "poll")

\* C7. When the subscribe issued on CONNACK fails while start() waits, the
\* pump's step leaves an outcome in the connect waiter's channel, and start()
\* never aborts.
C7_SubscribeFailureSignals ==
    /\ [][\A g \in Polling :
            (connected[g] = "pending" /\ PumpConnAck(g, FALSE)) =>
                connected'[g] \in {"ok", "err"}]_vars
    /\ [](result # Returned("start", "panicked"))

\* C8. In the transport-error arm the connect waiter receives the error exactly
\* when connected_tx is still held (the waiter has not been signalled); a waiter
\* signalled before keeps what it was sent; the pump is out of its loop
\* afterwards; a pump out of its loop never acts again; and start() returns Err
\* when it finds the error in its channel.
C8_TransportError ==
    /\ [][\A g \in Polling :
            PumpError(g) =>
                /\ (connected_tx[g] /\ connected[g] = "pending")
                        => connected'[g] = "err"
                /\ ~connected_tx[g] => connected'[g] = connected[g]
                /\ ~connected_tx'[g]
                /\ pump'[g] # "poll"]_vars
    /\ [][\A g \in Gens :
            pump[g] \in {"done", "panicked"} =>
                /\ pump'[g] = pump[g]
                /\ requests'[g] = requests[g]]_vars
    /\ [][(caller = "start" /\ connected[client] = "err" /\ caller' = "idle")
            => result' \in {Returned("start", "Err"),
                            Returned("start", "abandoned")}]_vars
    /\ [](result = Returned("start", "Err") =>
            pump[client] \in {"done", "panicked"})

\* start() returned the transport error; the pump has left its loop and no
\* subscribe was issued.
C8_Witness ==
    /\ result = Returned("start", "Err")
    /\ pump[client] = "done"
    /\ ~Subscribed(client)

\* C9. A PUBLISH whose payload fails to decode, or that decodes to a non-push
\* message whose sequence id is not a key of the inflight table, leaves the
\* table and every waiter's channel unchanged and the pump in its loop with its
\* subscription, so a reply for an entry still in the table is handled next.
\* (A step of a pump's Publish arm is looked for among the steps that leave the
\* application's calls alone.)
C9_DroppedPublishKeepsPump ==
    [][UNCHANGED <<caller, calls>> =>
        LET Dropped == {q \in Payloads :
                        \/ ~Decode(q).ok
                        \/ (Routable(q)
                            /\ q.sequence_id \notin DOMAIN inflight_commands)}
        IN \A g \in Polling :
            \/ /\ inflight_commands' = inflight_commands
               /\ slot' = slot
               /\ pump'[g] = "poll"
               /\ requests'[g] = requests[g]
            \/ \A p \in Dropped : ~PumpPublish(g, p)]_vars

\* A call waits with its entry in the table while its pump can be handed an
\* undecodable payload and a reply with a sequence id that was never issued.
C9_Witness ==
    \E k \in Calls :
        /\ calls[k].pc = "await"
        /\ slot[k] = NoMsg
        /\ HasEntry(k)
        /\ Published(client, calls[k].seq)
        /\ ENABLED PumpPublish(client, Undecodable)
        /\ ENABLED PumpPublish(client, [root |-> "info", command |-> "get_version",
                                        sequence_id |-> "42"])

\* C10. A step that sets the stop flag, and a step in which a pump leaves its
\* loop and ends, change neither the inflight table nor any waiter's channel nor
\* any call's position; stop() changes nothing of the client but the flag.
C10_StopNotifiesNobody ==
    /\ [][(Stop \/ (stop_flag' /\ ~stop_flag)) =>
            /\ inflight_commands' = inflight_commands
            /\ slot' = slot
            /\ calls' = calls
            /\ UNCHANGED <<client, sequence_id, pump, connected_tx, connected,
                           requests>>]_vars
    /\ [][\A g \in Polling :
            pump'[g] = "done" =>
                /\ inflight_commands' = inflight_commands
                /\ slot' = slot
                /\ calls' = calls]_vars

\* The flag is set, the pump has ended, and a call still waits with its entry
\* in the table and nothing in its channel.
C10_Witness ==
    \E k \in Calls :
        /\ stop_flag
        /\ calls[k].pc = "await"
        /\ pump[client] = "done"
        /\ slot[k] = NoMsg
        /\ HasEntry(k)
        /\ Published(client, calls[k].seq)

----------------------------------------------------------------------------
\* Part 2. FileClient::get_files and FtpClient.

\* Bound of the model: the number of lines the server sends on the data connection.
MaxLines == 2

\* Hosts the application may name: an IP literal, and a DNS name.
Hostnames ==
    {[name |-> "192.168.1.10", literal |-> TRUE],
     [name |-> "printer.local", literal |-> FALSE]}

\* self.hostname.parse::<IpAddr>(): only an IP literal parses.
ParsesAsIp(h) == h.literal

\* What FtpClient::connect can meet: to_socket_addrs() fails (a name that does
\* not resolve), TcpStream::connect fails, the TLS handshake fails.
ConnectOutcomes == {"ok", "resolve_error", "tcp_error", "tls_error"}

\* What a read of the control connection can yield: a reply line of some
\* code, the end of the stream, an I/O or decode error.
Reply(code) == [kind |-> "reply", code |-> code, addr |-> NoAddr]

Pasv(addr) == [kind |-> "reply", code |-> 227, addr |-> addr]

Eof == [kind |-> "eof", code |-> 0, addr |-> NoAddr]

IoError == [kind |-> "io_error", code |-> 0, addr |-> NoAddr]

\* framed.send(command) failed: nothing is read.
SendError == [kind |-> "send_error", code |-> 0, addr |-> NoAddr]

Codes == {150, 200, 220, 221, 226, 230, 257, 331, 530}

PasvAddrs == {[ip |-> "0.0.0.0", port |-> 1027], [ip |-> "10.0.0.7", port |-> 1027]}

Reads == {Reply(c) : c \in Codes} \cup {Pasv(a) : a \in PasvAddrs} \cup {Eof, IoError}

Exchanges == Reads \cup {SendError}

\* socket_addr.ip().is_unspecified()
IsUnspecified(addr) == addr.ip = "0.0.0.0"

Sent(cmd) == [dir |-> "send", cmd |-> cmd, reply |-> Eof]

Received(r) == [dir |-> "recv", cmd |-> "", reply |-> r]

\* Mutant: authenticate does not look at the reply to PBSZ.
PbszCodesAny == Codes \cup {227}

\* Mutant: list_files does not look at the reply to LIST.
ListCodesAny == Codes \cup {227}

\* The codes each call site accepts (the FtpResponse variant it matches).
UserCodes == {331}

PassCodes == {230}

PbszCodes == {200}

ProtCodes == {200}

PwdCodes == {257}

PasvCodes == {227}

ListCodes == {150}

QuitCodes == {221, 226}

\* Whether send_command returns Ok, returns Err, or aborts in the PASV fixup.
SendCommandResult(h, r) ==
    IF r.kind # "reply" THEN "Err"
    ELSE IF r.code = 227 /\ IsUnspecified(r.addr) /\ ~ParsesAsIp(h) THEN "panicked"
    ELSE "Ok"

\* The response send_command hands to its caller.
Fixup(h, r) ==
    IF r.code = 227 /\ IsUnspecified(r.addr)
    THEN Pasv([ip |-> h.name, port |-> r.addr.port])
    ELSE r

\* The call of get_files ends with this outcome; the connections are dropped.
Finish(outcome) ==
    /\ ftp_pc' = "returned"
    /\ files' = outcome

\* What a failed step does at a call site that uses `?`, and at one that uses unwrap().
Question == "Err"
Unwrap == "panicked"

\* The first step a dialogue action takes, "sent" being what it wrote.
Logged(cmd, r) ==
    IF r = SendError THEN <<Sent(cmd)>> ELSE <<Sent(cmd), Received(r)>>

\* One call of send_command and the match on its result: on_error is what the
\* call site does with Err, accepts the codes of the variant it matches.
SendCommand(cmd, r, accepts, next_pc, on_error) ==
    /\ r \in Exchanges
    /\ control' = control \o Logged(cmd, r)
    /\ LET res == SendCommandResult(hostname, r) IN
        IF res = "panicked" THEN Finish("panicked")
        ELSE IF res = "Err" THEN Finish(on_error)
        ELSE IF Fixup(hostname, r).code \in accepts
             THEN /\ ftp_pc' = next_pc
                  /\ files' = IF next_pc = "returned" THEN "Ok" ELSE files
             ELSE Finish("Err")

FtpInit ==
    /\ hostname \in Hostnames
    /\ ftp_pc = "connect"
    /\ control = << >>
    /\ socket_addr = NoAddr
    /\ data_framed = "none"
    /\ lines = 0
    /\ files = "none"

\* get_files: FtpClient::connect(..).await.unwrap()
FtpConnect(outcome) ==
    /\ ftp_pc = "connect"
    /\ outcome = "resolve_error" => ~hostname.literal
    /\ IF outcome = "ok"
       THEN ftp_pc' = "banner" /\ UNCHANGED files
       ELSE Finish(Unwrap)
    /\ UNCHANGED <<hostname, control, socket_addr, data_framed, lines>>

\* authenticate: the read of the welcome message.
FtpBanner(r) ==
    /\ ftp_pc = "banner"
    /\ r \in Reads
    /\ control' = Append(control, Received(r))
    /\ IF r = IoError
       THEN Finish(Question)
       ELSE \* anything else, the end of the stream included: message is Some or None
            ftp_pc' = "user" /\ UNCHANGED files
    /\ UNCHANGED <<hostname, socket_addr, data_framed, lines>>

FtpUser(r) ==
    /\ ftp_pc = "user"
    /\ SendCommand("USER", r, UserCodes, "pass", Unwrap)
    /\ UNCHANGED <<hostname, socket_addr, data_framed, lines>>

FtpPass(r) ==
    /\ ftp_pc = "pass"
    /\ SendCommand("PASS", r, PassCodes, "pbsz", Unwrap)
    /\ UNCHANGED <<hostname, socket_addr, data_framed, lines>>

FtpPbsz(r) ==
    /\ ftp_pc = "pbsz"
    /\ SendCommand("PBSZ 0", r, PbszCodes, "prot", Question)
    /\ UNCHANGED <<hostname, socket_addr, data_framed, lines>>

FtpProt(r) ==
    /\ ftp_pc = "prot"
    /\ SendCommand("PROT P", r, ProtCodes, "pwd", Question)
    /\ UNCHANGED <<hostname, socket_addr, data_framed, lines>>

\* list_files: self.pwd()
FtpPwd(r) ==
    /\ ftp_pc = "pwd"
    /\ SendCommand("PWD", r, PwdCodes, "pasv", Question)
    /\ UNCHANGED <<hostname, socket_addr, data_framed, lines>>

FtpPasv(r) ==
    /\ ftp_pc = "pasv"
    /\ SendCommand("PASV", r, PasvCodes, "list", Question)
    /\ socket_addr' = IF ftp_pc' = "list" THEN Fixup(hostname, r).addr ELSE socket_addr
    /\ UNCHANGED <<hostname, data_framed, lines>>

FtpList(r) ==
    /\ ftp_pc = "list"
    /\ SendCommand("LIST", r, ListCodes, "data_connect", Question)
    /\ UNCHANGED <<hostname, socket_addr, data_framed, lines>>

\* connect_insecure(socket_addr, LinesCodec::new()).await?
FtpDataConnect(ok) ==
    /\ ftp_pc = "data_connect"
    /\ IF ok
       THEN /\ data_framed' = "open"
            /\ ftp_pc' = "data"
            /\ UNCHANGED files
       ELSE Finish(Question) /\ UNCHANGED data_framed
    /\ UNCHANGED <<hostname, control, socket_addr, lines>>

\* Mutant: a line that does not parse ends the loop, and list_files goes on
\* with the records it has.
FtpDataLinePartial(parses) ==
    /\ ftp_pc = "data"
    /\ lines < MaxLines
    /\ IF parses
       THEN /\ lines' = lines + 1
            /\ UNCHANGED <<ftp_pc, files, data_framed>>
       ELSE /\ ftp_pc' = "list_quit"
            /\ data_framed' = "eof"
            /\ UNCHANGED <<lines, files>>
    /\ UNCHANGED <<hostname, control, socket_addr>>

\* One line of the data connection; parses tells whether FileMetadata::from_str accepts it.
FtpDataLine(parses) ==
    /\ ftp_pc = "data"
    /\ lines < MaxLines
    /\ IF parses
       THEN /\ lines' = lines + 1
            /\ UNCHANGED <<ftp_pc, files, data_framed>>
       ELSE /\ Finish("Err")
            /\ data_framed' = "dropped"
            /\ UNCHANGED lines
    /\ UNCHANGED <<hostname, control, socket_addr>>

\* The data connection yields Some(Err(e)).
FtpDataError ==
    /\ ftp_pc = "data"
    /\ Finish("Err")
    /\ data_framed' = "dropped"
    /\ UNCHANGED <<hostname, control, socket_addr, lines>>

\* The data connection yields None: the loop ends and data_framed is dropped.
FtpDataEof ==
    /\ ftp_pc = "data"
    /\ data_framed' = "eof"
    /\ ftp_pc' = "list_quit"
    /\ UNCHANGED <<hostname, control, socket_addr, lines, files>>

\* list_files: self.quit().await? ; Ok(lines)
FtpListQuit(r) ==
    /\ ftp_pc = "list_quit"
    /\ SendCommand("QUIT", r, QuitCodes, "quit", Question)
    /\ UNCHANGED <<hostname, socket_addr, data_framed, lines>>

\* get_files: client.quit().await? ; Ok(files)
FtpQuit(r) ==
    /\ ftp_pc = "quit"
    /\ SendCommand("QUIT", r, QuitCodes, "returned", Question)
    /\ UNCHANGED <<hostname, socket_addr, data_framed, lines>>

outside_ftp == <<vars, codec_vars, jpeg_vars, enc_vars, cam_vars, ser_vars, meta_vars>>

OutsideFtpIdle == Init /\ CodecIdle /\ JpegIdle /\ EncIdle /\ CamIdle /\ SerIdle /\ MetaIdle

FtpNext ==
    \/ \E outcome \in ConnectOutcomes : FtpConnect(outcome) /\ UNCHANGED outside_ftp
    \/ \E r \in Reads : FtpBanner(r) /\ UNCHANGED outside_ftp
    \/ \E r \in Exchanges : FtpUser(r) /\ UNCHANGED outside_ftp
    \/ \E r \in Exchanges : FtpPass(r) /\ UNCHANGED outside_ftp
    \/ \E r \in Exchanges : FtpPbsz(r) /\ UNCHANGED outside_ftp
    \/ \E r \in Exchanges : FtpProt(r) /\ UNCHANGED outside_ftp
    \/ \E r \in Exchanges : FtpPwd(r) /\ UNCHANGED outside_ftp
    \/ \E r \in Exchanges : FtpPasv(r) /\ UNCHANGED outside_ftp
    \/ \E r \in Exchanges : FtpList(r) /\ UNCHANGED outside_ftp
    \/ \E ok \in BOOLEAN : FtpDataConnect(ok) /\ UNCHANGED outside_ftp
    \/ \E parses \in BOOLEAN : FtpDataLine(parses) /\ UNCHANGED outside_ftp
    \/ FtpDataError /\ UNCHANGED outside_ftp
    \/ FtpDataEof /\ UNCHANGED outside_ftp
    \/ \E r \in Exchanges : FtpListQuit(r) /\ UNCHANGED outside_ftp
    \/ \E r \in Exchanges : FtpQuit(r) /\ UNCHANGED outside_ftp

\* The initial states of Part 2: the other parts are idle.
InitFtp == FtpInit /\ OutsideFtpIdle

FtpSpec == InitFtp /\ [][FtpNext]_<<ftp_vars, outside_ftp>>

----------------------------------------------------------------------------
\* Properties of part 2.

Last(q) == q[Len(q)]

\* The step read a reply line from the control connection.
ReadReply == Len(control') > Len(control) /\ Last(control').dir = "recv"
                /\ Last(control').reply.kind = "reply"

\* The step met a failure of the transport: the connection could not be made,
\* a command could not be written, or the read failed or found the stream ended.
TransportFailed ==
    \/ ftp_pc = "connect" /\ ftp_pc' = "returned"
    \/ /\ Len(control') > Len(control)
       /\ ftp_pc # "banner"
       /\ \/ Last(control').dir = "send"
          \/ Last(control').reply.kind \in {"eof", "io_error"}
    \/ ftp_pc = "banner" /\ Len(control') > Len(control)
           /\ Last(control').reply.kind = "io_error"
    \/ ftp_pc = "data_connect" /\ ftp_pc' = "returned"

SentCommands == SelectSeq(control, LAMBDA e : e.dir = "send")

\* Position i of the log holds cmd, answered at position i + 1 by a reply of that code.
Acknowledged(i, cmd, code) ==
    /\ i + 1 <= Len(control)
    /\ control[i] = Sent(cmd)
    /\ control[i + 1].dir = "recv"
    /\ control[i + 1].reply.kind = "reply"
    /\ control[i + 1].reply.code = code

\* C11. A failure of the transport during get_files ends the call with an error
\* value: the call never aborts on it.
C11_TransportFailureReturned ==
    [][TransportFailed => (ftp_pc' = "returned" /\ files' = "Err")]_ftp_vars

\* The code each state of the dialogue expects.
ExpectedCode ==
    [banner |-> 220, user |-> 331, pass |-> 230, pbsz |-> 200, prot |-> 200,
     pwd |-> 257, pasv |-> 227, list |-> 150, list_quit |-> 221, quit |-> 221]

\* C12. In every state of the dialogue, a reply whose code is not the one
\* expected there ends the operation with an error, and nothing is written to the
\* control connection afterwards.
C12_UnexpectedCodeIsFatal ==
    /\ [][(ReadReply /\ Last(control').reply.code # ExpectedCode[ftp_pc]) =>
            (ftp_pc' = "returned" /\ files' = "Err")]_ftp_vars
    /\ [][ftp_pc = "returned" => control' = control]_ftp_vars

\* C13. When get_files succeeded, the commands written up to the listing are
\* USER, PASS, PBSZ 0, PROT P, PWD, PASV, LIST in this order; at every moment each
\* command written before the last one is directly followed by what was read in
\* answer to it; and whenever a data connection has been opened, PBSZ 0 and
\* PROT P were both answered with 200.
C13_CommandOrder ==
    /\ files = "Ok" =>
          /\ Len(SentCommands) >= 7
          /\ [i \in 1..7 |-> SentCommands[i].cmd] =
                <<"USER", "PASS", "PBSZ 0", "PROT P", "PWD", "PASV", "LIST">>
    /\ \A i \in 1..Len(control) :
          (control[i].dir = "send" /\ i < Len(control)) => control[i + 1].dir = "recv"
    /\ data_framed # "none" =>
          \E i, j \in 1..Len(control) :
              /\ i < j
              /\ Acknowledged(i, "PBSZ 0", 200)
              /\ Acknowledged(j, "PROT P", 200)

\* A listing with an entry was returned.
C13_Witness ==
    /\ files = "Ok"
    /\ lines >= 1
    /\ data_framed = "eof"

\* C14. Whenever the data connection has been opened, a 227 reply to PASV and
\* then a 150 reply to LIST were read on the control connection, and the address
\* connected to is the one that 227 reply supplied; list_files goes on past the
\* data connection only when it has read it to its end.
C14_DataAfter227And150 ==
    /\ data_framed # "none" =>
          \E i, j \in 1..Len(control) :
              /\ i < j
              /\ Acknowledged(i, "PASV", 227)
              /\ Acknowledged(j, "LIST", 150)
              /\ socket_addr = Fixup(hostname, control[i + 1].reply).addr
    /\ (ftp_pc \in {"list_quit", "quit"} \/ files = "Ok") => data_framed = "eof"

\* The data connection is open and an entry has been read from it.
C14_Witness ==
    /\ data_framed = "open"
    /\ lines >= 1
    /\ socket_addr # NoAddr

\* C15. list_files sends no QUIT: when list_files has returned its entries and
\* get_files is about to call quit(), no QUIT has been written yet.
C15_ListSendsNoQuit ==
    ftp_pc = "quit" => \A i \in 1..Len(control) : control[i] # Sent("QUIT")

\* The address of the control connection's server.
ServerIp(h) == IF h.literal THEN h.name ELSE "192.168.1.10"

\* C16. When the reply to PASV is a 227, the call does not abort, and the
\* address kept for the data connection is the server's IP with the advertised
\* port if the advertised IP is 0.0.0.0, and the advertised address otherwise.
C16_PasvFixup ==
    [][(ftp_pc = "pasv" /\ ReadReply /\ Last(control').reply.code = 227) =>
        LET addr == Last(control').reply.addr IN
            /\ files' # "panicked"
            /\ socket_addr' =
                  IF IsUnspecified(addr)
                  THEN [ip |-> ServerIp(hostname), port |-> addr.port]
                  ELSE addr]_ftp_vars

----------------------------------------------------------------------------
\* Part 3: the FTP response decoder (src/src/file/ftp/codec.rs).
\*
\* A buffer is a sequence of bytes; a byte is written as a one-character string,
\* CR, LF and the byte that is not valid UTF-8 by their names.

CR == "CR"
LF == "LF"
SP == " "
NotUtf8 == "0xFF"

CRLF == <<CR, LF>>

\* The largest values of u8 and u16.
U8_MAX == 255
U16_MAX == 65535

\* The decimal text of n, as the server writes it.
RECURSIVE Digits(_)
Digits(n) ==
    IF n < 10 THEN <<Digit[n + 1]>>
    ELSE Digits(n \div 10) \o <<Digit[(n % 10) + 1]>>

IsDigit(c) == \E d \in 1..10 : Digit[d] = c

DigitValue(c) == CHOOSE d \in 0..9 : Digit[d + 1] = c

RECURSIVE DigitsValue(_)
DigitsValue(s) ==
    IF s = << >> THEN 0
    ELSE DigitsValue(SubSeq(s, 1, Len(s) - 1)) * 10 + DigitValue(s[Len(s)])

AllDigits(s) == s # << >> /\ \A i \in 1..Len(s) : IsDigit(s[i])

\* str::parse::<u8>() and str::parse::<u16>(): an optional '+', then at least
\* one decimal digit, and a value of at most max.
ParseUnsigned(s, max) ==
    LET digits == IF s # << >> /\ s[1] = "+" THEN Tail(s) ELSE s
    IN  IF AllDigits(digits) /\ DigitsValue(digits) <= max
        THEN [ok |-> TRUE, value |-> DigitsValue(digits)]
        ELSE [ok |-> FALSE, value |-> 0]

Positions(b, c) == {i \in 1..Len(b) : b[i] = c}

Min(S) == CHOOSE x \in S : \A y \in S : x <= y

\* memchr(c, &b[lo..hi]).is_some(), positions counted from 1, both ends included
Has(b, c, lo, hi) == \E i \in lo..hi : b[i] = c

\* str::split(c)
RECURSIVE Split(_, _)
Split(b, c) ==
    IF Positions(b, c) = {} THEN <<b>>
    ELSE LET i == Min(Positions(b, c))
         IN  <<SubSeq(b, 1, i - 1)>> \o Split(SubSeq(b, i + 1, Len(b)), c)

\* str::splitn(2, ' '): the first token and the rest (empty when there is no space)
SplitN2(b) ==
    IF Positions(b, SP) = {} THEN <<b, << >> >>
    ELSE LET i == Min(Positions(b, SP))
         IN  <<SubSeq(b, 1, i - 1), SubSeq(b, i + 1, Len(b))>>

\* What decode returns: Ok(None), Ok(Some(response)), Err(e), or no return at all.
NeedMore == [kind |-> "None", code |-> 0, message |-> << >>, ip |-> << >>, port |-> 0]
Error == [kind |-> "Err", code |-> 0, message |-> << >>, ip |-> << >>, port |-> 0]
Panicked == [kind |-> "panicked", code |-> 0, message |-> << >>, ip |-> << >>, port |-> 0]

Some(code, message) ==
    [kind |-> "Some", code |-> code, message |-> message, ip |-> << >>, port |-> 0]

EnteringPassiveMode(ip, port) ==
    [kind |-> "Some", code |-> 227, message |-> << >>, ip |-> ip, port |-> port]

\* let port = port_hi * 256 + port_lo, in u16: a value that does not fit aborts
\* when overflow checks are compiled in and wraps around when they are not.
PortOutcomes(port_hi, port_lo) ==
    IF port_hi * 256 + port_lo <= U16_MAX
    THEN {[panicked |-> FALSE, port |-> port_hi * 256 + port_lo]}
    ELSE {[panicked |-> TRUE, port |-> 0],
          [panicked |-> FALSE, port |-> (port_hi * 256 + port_lo) % (U16_MAX + 1)]}

\* Mutant: extra parentheses are not looked for.
ExtraParensIgnored(bytes, start, end) == FALSE

\* The test "any extra parentheses or reversed order" of the 227 arm.
ExtraParens(bytes, start, end) ==
    \/ end = start
    \/ Has(bytes, "(", start + 1, end - 1)
    \/ Has(bytes, ")", start + 1, end - 1)
    \/ Has(bytes, "(", end + 1, Len(bytes))
    \/ Has(bytes, ")", 1, start - 1)
    \/ Has(bytes, ")", end + 1, Len(bytes))

WrongFieldCount(parts) == Len(parts) # 6

\* The 227 arm of from_response_string: the set of its possible outcomes.
ParsePasv(message) ==
    IF Positions(message, "(") = {} THEN {Error}
    ELSE
    LET start == Min(Positions(message, "(")) IN
    IF {i \in Positions(message, ")") : i >= start} = {} THEN {Error}
    ELSE
    LET end == Min({i \in Positions(message, ")") : i >= start}) IN
    IF ExtraParens(message, start, end) THEN {Error}
    ELSE
    LET parts == Split(SubSeq(message, start + 1, end - 1), ",") IN
    IF WrongFieldCount(parts) THEN {Error}
    ELSE
    LET a == ParseUnsigned(parts[1], U8_MAX)
        b == ParseUnsigned(parts[2], U8_MAX)
        c == ParseUnsigned(parts[3], U8_MAX)
        d == ParseUnsigned(parts[4], U8_MAX)
        port_hi == ParseUnsigned(parts[5], U16_MAX)
        port_lo == ParseUnsigned(parts[6], U16_MAX)
    IN  IF ~(a.ok /\ b.ok /\ c.ok /\ d.ok /\ port_hi.ok /\ port_lo.ok) THEN {Error}
        ELSE {IF o.panicked THEN Panicked
              ELSE EnteringPassiveMode(<<a.value, b.value, c.value, d.value>>, o.port) :
                    o \in PortOutcomes(port_hi.value, port_lo.value)}

\* FtpResponse::from_response_string
FromResponseString(text) ==
    LET parts == SplitN2(text)
        code == ParseUnsigned(parts[1], U16_MAX)
    IN  IF ~code.ok THEN {Error}
        ELSE IF code.value = 227 THEN ParsePasv(parts[2])
        ELSE {Some(code.value, parts[2])}

\* memmem::find(src, CRLF)
FindCrlf(b) == {i \in 1..(Len(b) - 1) : b[i] = CR /\ b[i + 1] = LF}

\* std::str::from_utf8
IsUtf8(b) == Positions(b, NotUtf8) = {}

\* FtpCodec::decode: the possible outcomes, each with the buffer it leaves.
DecodeOutcomes(b) ==
    IF FindCrlf(b) = {}
    THEN {[src |-> b, line |-> << >>, response |-> NeedMore]}
    ELSE LET pos == Min(FindCrlf(b))
             text == SubSeq(b, 1, pos - 1)
             rest == SubSeq(b, pos + 2, Len(b))
         IN  {[src |-> rest, line |-> text, response |-> r] :
                 r \in IF IsUtf8(text) THEN FromResponseString(text) ELSE {Error}}

\* What the server may have written into the buffer.
RECURSIVE Join(_)
Join(fields) ==
    IF Len(fields) = 0 THEN << >>
    ELSE IF Len(fields) = 1 THEN fields[1]
    ELSE fields[1] \o <<",">> \o Join(Tail(fields))

PasvLine(pre, open, fields, close, post) ==
    Digits(227) \o <<SP>> \o pre \o open \o Join(fields) \o close \o post

IpValues == {<<a, b, c, d>> : a \in {0, 192, 255}, b \in {0, 168}, c \in {0, 1}, d \in {0, 2, 255}}

PortHiValues == {0, 1, 4, 255, 256, 65535, 65536}

PortLoValues == {0, 3, 255, 256, 65535}

PasvTexts == {<< >>, <<"x", SP>>}

SixFields(ip, hi, lo) ==
    <<Digits(ip[1]), Digits(ip[2]), Digits(ip[3]), Digits(ip[4]), Digits(hi), Digits(lo)>>

SampleFields == SixFields(<<192, 168, 1, 2>>, 4, 3)

OddFields ==
    {[SampleFields EXCEPT ![1] = f] : f \in {Digits(256), << >>, <<"x">>, <<"+", "1">>, <<"-", "1">>}}
    \cup {[SampleFields EXCEPT ![6] = f] : f \in {<< >>, <<"x">>}}
    \cup {<< >>, <<Digits(1)>>, SubSeq(SampleFields, 1, 5), SampleFields \o <<Digits(7)>>}

PasvLines ==
    {PasvLine(t, <<"(">>, SixFields(ip, hi, lo), <<")">>, << >>) :
        t \in PasvTexts, ip \in IpValues, hi \in PortHiValues, lo \in PortLoValues}
    \cup {PasvLine(t, <<"(">>, f, <<")">>, << >>) : t \in PasvTexts, f \in OddFields}
    \cup {PasvLine(pre, open, f, close, post) :
            pre \in PasvTexts \cup {<<"(">>, <<")">>}, open \in {<<"(">>, << >>},
            f \in {SampleFields, SubSeq(SampleFields, 1, 5)},
            close \in {<<")">>, << >>}, post \in {<< >>, <<"x">>, <<"(">>, <<")">>}}

CodeTokens ==
    {Digits(n) : n \in {0, 150, 200, 220, 999, 1000, 65535, 65536}}
    \cup {<< >>, <<"x">>, <<"2", "x">>, <<"+", "2", "2", "0">>, <<"-", "1">>, <<"0", "0", "7">>}

ReplyLines ==
    {t \o sep \o m : t \in CodeTokens, sep \in {<< >>, <<SP>>},
                     m \in {<< >>, <<"x">>, <<"x", SP, "y">>, <<NotUtf8>>}}

Terminators == {<< >>, <<CR>>, <<LF>>, CRLF, <<LF, CR>>, <<CR>> \o CRLF}

\* A second reply that arrived with the first one.
NextReplies == {<< >>, Digits(200) \o CRLF}

Buffers ==
    {l \o t \o n : l \in ReplyLines, t \in Terminators, n \in NextReplies}
    \cup {l \o t \o n : l \in PasvLines, t \in {<< >>, CRLF}, n \in NextReplies}

CodecInit ==
    /\ src \in Buffers
    /\ line = << >>
    /\ response = NoResponse

\* One call of FtpCodec::decode by the Framed stream: the first call, or the
\* call that follows a decoded response. After Ok(None) the stream waits for
\* bytes, after an error it ends.
FtpCodecDecode ==
    /\ response.kind \in {"NotCalled", "Some"}
    /\ \E out \in DecodeOutcomes(src) :
        /\ src' = out.src
        /\ line' = out.line
        /\ response' = out.response

outside_codec == <<vars, ftp_vars, jpeg_vars, enc_vars, cam_vars, ser_vars, meta_vars>>

OutsideCodecIdle == Init /\ FtpIdle /\ JpegIdle /\ EncIdle /\ CamIdle /\ SerIdle /\ MetaIdle

CodecNext == FtpCodecDecode /\ UNCHANGED outside_codec

\* The initial states of Part 3: the other parts are idle.
InitCodec == CodecInit /\ OutsideCodecIdle

CodecSpec == InitCodec /\ [][CodecNext]_<<codec_vars, outside_codec>>

----------------------------------------------------------------------------
\* Part 3 properties.

\* A line that starts with "227 ", and the message that follows the code.
IsPasvLine(l) == Len(l) >= 4 /\ SubSeq(l, 1, 4) = Digits(227) \o <<SP>>

PasvMessage(l) == SubSeq(l, 5, Len(l))

\* "227 <text> (a,b,c,d,p/256,p%256)"
WellFormedPasv(text, ip, p) ==
    PasvLine(text, <<"(">>, SixFields(ip, p \div 256, p % 256), <<")">>, << >>)

Ports == {0, 255, 256, 1027, 65535}

WellFormedPasvLines ==
    {[line |-> WellFormedPasv(t, ip, p), ip |-> ip, port |-> p] :
        t \in PasvTexts, ip \in IpValues, p \in Ports}

\* A missing parenthesis, a second '(' or ')', or a ')' before the '('.
BadParens(m) ==
    \/ Cardinality(Positions(m, "(")) # 1
    \/ Cardinality(Positions(m, ")")) # 1
    \/ Min(Positions(m, ")")) < Min(Positions(m, "("))

\* The text between the parentheses of a message whose parentheses are in order.
PasvData(m) == SubSeq(m, Min(Positions(m, "(")) + 1, Min(Positions(m, ")")) - 1)

BadFieldCount(m) == ~BadParens(m) /\ Cardinality(Positions(PasvData(m), ",")) # 5

\* C17: a line "227 <text> (a,b,c,d,p/256,p%256)" with a, b, c, d in 0..255
\* and p in 0..65535 decodes to EnteringPassiveMode(a.b.c.d:p); a 227 line
\* with a missing or a second parenthesis, a ')' before the '(' or a number of
\* fields other than six decodes to an error.
C17_PasvParser ==
    /\ \A w \in WellFormedPasvLines :
          line = w.line => response = EnteringPassiveMode(w.ip, w.port)
    /\ (IsPasvLine(line) /\ (BadParens(PasvMessage(line)) \/ BadFieldCount(PasvMessage(line))))
          => response = Error

\* The line of the crate's own test, with the largest port next to it, decoded.
C17_Witness ==
    /\ line = WellFormedPasv(<<"x", SP>>, <<192, 168, 1, 2>>, 1027)
    /\ response = EnteringPassiveMode(<<192, 168, 1, 2>>, 1027)

\* A 227 line with six decimal fields between one pair of parentheses, the
\* first four at most 255.
NumericPasv(l) ==
    /\ IsPasvLine(l)
    /\ ~BadParens(PasvMessage(l))
    /\ ~BadFieldCount(PasvMessage(l))
    /\ LET parts == Split(PasvData(PasvMessage(l)), ",")
       IN  /\ \A i \in 1..6 : AllDigits(parts[i])
           /\ \A i \in 1..4 : DigitsValue(parts[i]) <= U8_MAX

PasvField(l, i) == DigitsValue(Split(PasvData(PasvMessage(l)), ",")[i])

\* C18: an accepted 227 line yields the port p1*256 + p2 exactly; a line whose
\* p1*256 + p2 does not fit in 0..65535 is rejected with an error, it neither
\* wraps around nor aborts.
C18_PortExact ==
    NumericPasv(line) =>
        LET p == PasvField(line, 5) * 256 + PasvField(line, 6)
        IN  /\ response.kind = "Some" => response.port = p
            /\ p > U16_MAX => response = Error

\* A decimal code in 0..=999.
IsCode(token) == AllDigits(token) /\ DigitsValue(token) <= 999

\* C19: decode accepts a CRLF-terminated line only if its first space-delimited
\* token is a decimal code in 0..=999; any other first token gives an error;
\* a buffer without CRLF gives "need more" and stays as it was.
C19_CodeInRange ==
    [][IF FindCrlf(src) = {}
       THEN response' = NeedMore /\ src' = src
       ELSE /\ response'.kind = "Some" => IsCode(SplitN2(line')[1])
            /\ ~IsCode(SplitN2(line')[1]) => response' = Error]_codec_vars

----------------------------------------------------------------------------
\* Part 4: the camera stream decoder (src/src/camera/codec.rs).
\*
\* A byte is a number in 0..255.

\* Bound of the model: the number of segments (frames, stretches of garbage)
\* of a stream.
MaxSegs == 3

JPEG_START_MARKER == <<255, 216, 255, 224>>

JPEG_END_MARKER == <<255, 217>>

\* The length of the authentication packet, and its two magic numbers.
AUTH_LEN == 80
MAGIC_1 == 64
MAGIC_2 == 12288

\* &b[lo..hi]: offsets count from 0, hi is excluded
Slice(b, lo, hi) == SubSeq(b, lo + 1, hi)

\* memmem::find(haystack, needle): the offsets of the matches, the first is returned
Matches(haystack, needle) ==
    {i \in 0..(Len(haystack) - Len(needle)) :
        /\ haystack[i + 1] = needle[1]
        /\ Slice(haystack, i, i + Len(needle)) = needle}

find_subsequence(haystack, needle) == Min(Matches(haystack, needle))

\* u32::to_le_bytes
ToLeBytes(v) == <<v % 256, (v \div 256) % 256, (v \div 65536) % 256, (v \div 16777216) % 256>>

\* u32::from_le_bytes(bytes) == v
FromLeBytesIs(bytes, v) == bytes = ToLeBytes(v)

\* trim_end_matches('\0')
RECURSIVE TrimEndZeros(_)
TrimEndZeros(b) ==
    IF b # << >> /\ b[Len(b)] = 0 THEN TrimEndZeros(SubSeq(b, 1, Len(b) - 1)) ELSE b

Auth(username, access_code) ==
    [kind |-> "Auth", bytes |-> << >>, username |-> username, access_code |-> access_code]

Jpeg(bytes) ==
    [kind |-> "Jpeg", bytes |-> bytes, username |-> << >>, access_code |-> << >>]

\* Mutant: the authentication prefix is never looked for.
IsAuthPacketNever(b) == FALSE

\* decode_auth_packet: is the buffer headed by an authentication packet
IsAuthPacket(b) ==
    /\ Len(b) >= AUTH_LEN
    /\ FromLeBytesIs(Slice(b, 0, 4), MAGIC_1)
    /\ FromLeBytesIs(Slice(b, 4, 8), MAGIC_2)
    /\ FromLeBytesIs(Slice(b, 8, 12), 0)
    /\ FromLeBytesIs(Slice(b, 12, 16), 0)

\* Mutant: the bytes before the start marker stay in the frame.
FrameWithPrefix(head, start_idx) == head

\* head.split_off(start_idx)
Frame(head, start_idx) == Slice(head, start_idx, Len(head))

\* Mutant: a call that finds no frame empties the buffer.
NoFrameDiscards(b) == [item |-> << >>, src |-> << >>]

\* return Ok(None): no packet, the buffer as it was
NoFrame(b) == [item |-> << >>, src |-> b]

\* Mutant: the frame ends before its end marker.
EndIdxBeforeMarker(search_start, end_rel_idx) == search_start + end_rel_idx

\* Mutant: the frame ends one byte after its end marker.
EndIdxPastMarker(search_start, end_rel_idx) ==
    search_start + end_rel_idx + Len(JPEG_END_MARKER) + 1

\* let end_idx = search_start + end_rel_idx + JPEG_END_MARKER.len()
EndIdx(search_start, end_rel_idx) == search_start + end_rel_idx + Len(JPEG_END_MARKER)

\* The call did not return: an index was out of range.
DecodePanicked(b) ==
    [item |-> <<[kind |-> "panicked", bytes |-> << >>, username |-> << >>,
                 access_code |-> << >>]>>,
     src |-> b]

\* &src[at..], split_to(at) and split_off(at) abort when at is beyond the length.
InRange(at, len) == at <= len

\* JpegCodec::decode: the packet it returns (a sequence of none or one) and the
\* buffer it leaves.
JpegDecode(b) ==
    IF IsAuthPacket(b)
    THEN [item |-> <<Auth(TrimEndZeros(Slice(b, 16, 48)), TrimEndZeros(Slice(b, 48, 80)))>>,
          src |-> Slice(b, AUTH_LEN, Len(b))]
    ELSE IF Matches(b, JPEG_START_MARKER) = {} THEN NoFrame(b)
    ELSE
    LET start_idx == find_subsequence(b, JPEG_START_MARKER)
        search_start == start_idx + Len(JPEG_START_MARKER)
    IN  IF ~InRange(search_start, Len(b)) THEN DecodePanicked(b)
        ELSE IF Matches(Slice(b, search_start, Len(b)), JPEG_END_MARKER) = {}
        THEN NoFrame(b)
        ELSE LET end_rel_idx == find_subsequence(Slice(b, search_start, Len(b)), JPEG_END_MARKER)
                 end_idx == EndIdx(search_start, end_rel_idx)
                 head == Slice(b, 0, end_idx)
             IN  IF ~InRange(end_idx, Len(b)) \/ ~InRange(start_idx, end_idx)
                 THEN DecodePanicked(b)
                 ELSE [item |-> <<Jpeg(Frame(head, start_idx))>>,
                       src |-> Slice(b, end_idx, Len(b))]

\* What the camera may send. Frames: an empty body, a body that begins with
\* another marker (FF DB), a body that holds a start marker, a body that holds
\* an end marker.
FrameOf(body) == [kind |-> "frame", bytes |-> JPEG_START_MARKER \o body \o JPEG_END_MARKER]

Garbage(bytes) == [kind |-> "garbage", bytes |-> bytes]

Frames ==
    {FrameOf(body) : body \in {<< >>, <<255, 219, 1, 255>>, <<1>> \o JPEG_START_MARKER,
                               JPEG_END_MARKER \o <<1>>}}

AuthHeader == ToLeBytes(MAGIC_1) \o ToLeBytes(MAGIC_2) \o ToLeBytes(0) \o ToLeBytes(0)

\* Garbage: a byte and a stray end marker, the head of a start marker, a stray
\* start marker, the bytes of an authentication packet.
Garbages ==
    {Garbage(b) : b \in {<<1>> \o JPEG_END_MARKER,
                         SubSeq(JPEG_START_MARKER, 1, 3),
                         <<1>> \o JPEG_START_MARKER \o <<1>>,
                         AuthHeader \o [i \in 1..(AUTH_LEN - 16) |-> IF i = 1 THEN 98 ELSE 0]}}

\* Streams: up to MaxSegs segments, garbage only between frames or at the ends.
Streams ==
    {s \in UNION {[1..n -> Frames \cup Garbages] : n \in 1..MaxSegs} :
        \A i \in 1..(Len(s) - 1) : ~(s[i].kind = "garbage" /\ s[i + 1].kind = "garbage")}

RECURSIVE Concat(_)
Concat(segs) == IF segs = << >> THEN << >> ELSE segs[1].bytes \o Concat(Tail(segs))

JpegInit ==
    /\ segments \in Streams
    /\ fed = 0
    /\ jpeg_src = << >>
    /\ packets = << >>

\* The next byte of the stream is appended to the buffer and decode is called once.
JpegFeed ==
    /\ fed < Len(Concat(segments))
    /\ LET out == JpegDecode(Append(jpeg_src, Concat(segments)[fed + 1]))
       IN  /\ jpeg_src' = out.src
           /\ packets' = packets \o out.item
    /\ fed' = fed + 1
    /\ UNCHANGED segments

outside_jpeg == <<vars, ftp_vars, codec_vars, enc_vars, cam_vars, ser_vars, meta_vars>>

OutsideJpegIdle == Init /\ FtpIdle /\ CodecIdle /\ EncIdle /\ CamIdle /\ SerIdle /\ MetaIdle

JpegNext == JpegFeed /\ UNCHANGED outside_jpeg

\* The initial states of Part 4: the other parts are idle.
InitJpeg == JpegInit /\ OutsideJpegIdle

JpegSpec == InitJpeg /\ [][JpegNext]_<<jpeg_vars, outside_jpeg>>

\* The same streams, received in one piece: the whole stream is in the buffer
\* and the Framed stream calls decode until it returns Ok(None).
JpegBufferedInit ==
    /\ segments \in Streams
    /\ fed = Len(Concat(segments))
    /\ jpeg_src = Concat(segments)
    /\ packets = << >>

\* One call of JpegCodec::decode on the buffer as it is.
JpegPoll ==
    /\ LET out == JpegDecode(jpeg_src)
       IN  /\ jpeg_src' = out.src
           /\ packets' = packets \o out.item
    /\ UNCHANGED <<segments, fed>>

InitJpegBuffered == JpegBufferedInit /\ OutsideJpegIdle

JpegBufferedNext == JpegPoll /\ UNCHANGED outside_jpeg

JpegBufferedSpec == InitJpegBuffered /\ [][JpegBufferedNext]_<<jpeg_vars, outside_jpeg>>

----------------------------------------------------------------------------
\* Part 4 properties.

\* The frames of the stream whose last byte is among the first n bytes, in order.
RECURSIVE FramesWithin(_, _)
FramesWithin(segs, n) ==
    IF segs = << >> \/ Len(segs[1].bytes) > n THEN << >>
    ELSE (IF segs[1].kind = "frame" THEN <<Jpeg(segs[1].bytes)>> ELSE << >>)
         \o FramesWithin(Tail(segs), n - Len(segs[1].bytes))

\* A frame whose only end marker after the start marker is its last two bytes.
EndsOnce(f) ==
    Matches(Slice(f, Len(JPEG_START_MARKER), Len(f)), JPEG_END_MARKER)
        = {Len(f) - Len(JPEG_START_MARKER) - Len(JPEG_END_MARKER)}

\* C20 as stated, a well-formed frame being one that ends at its first end
\* marker: once the whole stream of N frames and garbage is fed, one byte a
\* call, exactly the N frames have been emitted, as Jpeg packets, each
\* byte-identical to its original, in the order of their end markers.
C20_RoundTrip ==
    (/\ \A i \in 1..Len(segments) :
            segments[i].kind = "frame" => EndsOnce(segments[i].bytes)
     /\ fed = Len(Concat(segments)))
        => packets = FramesWithin(segments, fed)

\* Garbage that holds no start marker and does not begin with the sixteen
\* header bytes of an authentication packet.
Inert(g) ==
    /\ Matches(g, JPEG_START_MARKER) = {}
    /\ ~(Len(g) >= Len(AuthHeader) /\ SubSeq(g, 1, Len(AuthHeader)) = AuthHeader)

Clean(segs) ==
    \A i \in 1..Len(segs) :
        IF segs[i].kind = "frame" THEN EndsOnce(segs[i].bytes) ELSE Inert(segs[i].bytes)

\* C20, amended: for a stream whose frames hold no end marker before their last
\* two bytes and whose garbage holds no start marker and does not begin with
\* the authentication header, the packets emitted after every byte are exactly
\* the frames that have ended so far, as Jpeg packets, byte-identical and in
\* order; after the last byte these are the N frames.
C20_RoundTripClean ==
    Clean(segments) => packets = FramesWithin(segments, fed)

\* A clean stream with garbage and two frames or more, fed to its last byte.
C20_Witness ==
    /\ segments # << >>
    /\ Clean(segments)
    /\ fed = Len(Concat(segments))
    /\ \E i \in 1..Len(segments) : segments[i].kind = "garbage"
    /\ Len(packets) >= 2
    /\ packets = FramesWithin(segments, fed)

\* C21: a call of decode that returns "need more" leaves the buffer as it
\* was: the byte just received is appended and nothing is consumed, be the
\* buffer a strict prefix of a frame, a start marker with no FF D9 after it
\* (FF DB or other bytes may follow), or bytes without a start marker.
C21_NeedMoreKeepsBuffer ==
    [][packets' = packets
        => jpeg_src' = Append(jpeg_src, Concat(segments)[fed + 1])]_jpeg_vars

\* A start marker followed by FF DB is buffered whole and no packet was emitted.
C21_Witness ==
    /\ packets = << >>
    /\ fed = Len(jpeg_src)
    /\ Len(jpeg_src) >= 6
    /\ Slice(jpeg_src, 0, 6) = JPEG_START_MARKER \o <<255, 219>>

\* The earliest member of a non-empty set of offsets.
Earliest(S, x) == x \in S /\ \A y \in S : x <= y

\* C22: a Jpeg packet that decode emits is the span of the buffer from the
\* earliest FF D8 FF E0 to the earliest FF D9 that starts at or after the end of
\* that start marker, both included; the buffer is left with exactly the bytes
\* that followed the end marker.
C22_JpegSpan ==
    [][(Len(packets') > Len(packets) /\ packets'[Len(packets')].kind = "Jpeg")
        => \E s \in Matches(jpeg_src, JPEG_START_MARKER) :
             /\ Earliest(Matches(jpeg_src, JPEG_START_MARKER), s)
             /\ \E e \in Matches(jpeg_src, JPEG_END_MARKER) :
                  /\ Earliest({x \in Matches(jpeg_src, JPEG_END_MARKER) : x >= s + 4}, e)
                  /\ packets'[Len(packets')].bytes = Slice(jpeg_src, s, e + 2)
                  /\ Slice(packets'[Len(packets')].bytes, 0, 4) = JPEG_START_MARKER
                  /\ jpeg_src' = Slice(jpeg_src, e + 2, Len(jpeg_src))]_jpeg_vars

\* A frame was cut out of a buffer that held garbage before it and bytes after it.
C22_Witness ==
    /\ Len(segments) = 3
    /\ segments[1].kind = "garbage"
    /\ segments[2].kind = "frame"
    /\ packets = <<Jpeg(segments[2].bytes)>>
    /\ jpeg_src = segments[3].bytes

----------------------------------------------------------------------------
\* Part 5: the camera packet encoder (src/src/camera/codec.rs).

\* The length of the username field and of the access code field.
FIELD_LEN == 32

\* Mutant: a field is written without its padding.
ZeroPaddedNot(bytes, n) == bytes

\* [0u8; 32] with the first min(len, 32) bytes of the text copied in
ZeroPadded(bytes, n) == [i \in 1..n |-> IF i <= Len(bytes) THEN bytes[i] ELSE 0]

\* JpegCodec::encode: the bytes appended to dst
JpegEncode(item) ==
    IF item.kind = "Auth"
    THEN ToLeBytes(MAGIC_1) \o ToLeBytes(MAGIC_2) \o ToLeBytes(0) \o ToLeBytes(0)
         \o ZeroPadded(item.username, FIELD_LEN) \o ZeroPadded(item.access_code, FIELD_LEN)
    ELSE item.bytes

\* n bytes of value v
Repeat(v, n) == [i \in 1..n |-> v]

\* Usernames and access codes: empty, "bblp" and "1234", full length, one byte
\* too long, ending with a NUL byte.
Usernames == {<< >>, <<98, 98, 108, 112>>, <<98, 0>>, <<0>>, Repeat(97, FIELD_LEN), Repeat(97, FIELD_LEN + 1)}

AccessCodes ==
    {<< >>, <<49, 50, 51, 52>>, <<49, 0>>, Repeat(49, FIELD_LEN), Repeat(49, FIELD_LEN + 1)}

AuthItems == {Auth(u, a) : u \in Usernames, a \in AccessCodes}

JpegItems == {Jpeg(f.bytes) : f \in {FrameOf(<< >>), FrameOf(<<255, 219, 1, 255>>)}}

Outboxes ==
    {<<i>> : i \in AuthItems \cup JpegItems} \cup {<<i, j>> : i \in AuthItems, j \in JpegItems}

EncInit ==
    /\ outbox \in Outboxes
    /\ encoded = 0
    /\ dst = << >>
    /\ delivered = FALSE
    /\ JpegIdle

\* The next packet of the outbox is encoded.
EncEncode ==
    /\ encoded < Len(outbox)
    /\ dst' = dst \o JpegEncode(outbox[encoded + 1])
    /\ encoded' = encoded + 1
    /\ UNCHANGED <<outbox, delivered, jpeg_vars>>

\* The encoded bytes reach the buffer of a decoder.
EncDeliver ==
    /\ encoded = Len(outbox)
    /\ ~delivered
    /\ delivered' = TRUE
    /\ jpeg_src' = dst
    /\ UNCHANGED <<outbox, encoded, dst, segments, fed, packets>>

\* The decoder is called on its buffer.
EncDecode ==
    /\ delivered
    /\ JpegPoll
    /\ UNCHANGED enc_vars

outside_enc == <<vars, ftp_vars, codec_vars, cam_vars, ser_vars, meta_vars>>

OutsideEncIdle == Init /\ FtpIdle /\ CodecIdle /\ CamIdle /\ SerIdle /\ MetaIdle

InitEnc == EncInit /\ OutsideEncIdle

EncNext ==
    \/ EncEncode /\ UNCHANGED outside_enc
    \/ EncDeliver /\ UNCHANGED outside_enc
    \/ EncDecode /\ UNCHANGED outside_enc

EncSpec == InitEnc /\ [][EncNext]_<<enc_vars, jpeg_vars, outside_enc>>

----------------------------------------------------------------------------
\* Part 5 properties.

\* The first packet of the outbox is Auth{u, a} with u and a of at most 32 bytes.
FirstIsShortAuth ==
    /\ outbox # << >>
    /\ outbox[1].kind = "Auth"
    /\ Len(outbox[1].username) <= 32
    /\ Len(outbox[1].access_code) <= 32

\* The layout of the 80 bytes: 0x40, 0x3000, 0, 0 as little-endian u32, then the
\* two fields, each followed by zero bytes up to 32.
AuthBytes(u, a) ==
    <<64, 0, 0, 0, 0, 48, 0, 0, 0, 0, 0, 0, 0, 0, 0, 0>>
    \o u \o Repeat(0, 32 - Len(u)) \o a \o Repeat(0, 32 - Len(a))

\* Encoding the first packet gave the 80 bytes of the layout; decoding them
\* gave the packet back and took exactly these 80 bytes off the buffer.
AuthRoundTrips ==
    /\ encoded >= 1 =>
        /\ Len(dst) >= 80
        /\ Slice(dst, 0, 80) = AuthBytes(outbox[1].username, outbox[1].access_code)
    /\ encoded = 1 => Len(dst) = 80
    /\ Len(packets) >= 1 => packets[1] = outbox[1]
    /\ Len(packets) = 1 => jpeg_src = Slice(dst, 80, Len(dst))

\* C23 as stated: for every username and access code of at most 32 bytes,
\* encoding Auth{u, a} gives exactly 80 bytes in the fixed layout and decoding
\* them gives Auth{u, a} and consumes exactly 80 bytes.
C23_AuthRoundTrip == FirstIsShortAuth => AuthRoundTrips

EndsWithNul(b) == b # << >> /\ b[Len(b)] = 0

\* C23, amended: the same for every username and access code of at most 32
\* bytes that does not end with a NUL byte.
C23_AuthRoundTripNoNul ==
    (/\ FirstIsShortAuth
     /\ ~EndsWithNul(outbox[1].username)
     /\ ~EndsWithNul(outbox[1].access_code))
        => AuthRoundTrips

\* Auth with an empty username and "1234", followed by a frame, was encoded,
\* and the Auth packet has been decoded.
C23_Witness ==
    /\ Len(outbox) = 2
    /\ outbox[1] = Auth(<< >>, <<49, 50, 51, 52>>)
    /\ packets = <<outbox[1]>>
    /\ Len(dst) > 80
    /\ jpeg_src = outbox[2].bytes

----------------------------------------------------------------------------
\* Part 6: the camera client (src/src/camera.rs).

\* "bblp"
CAMERA_USERNAME == <<98, 98, 108, 112>>

\* Mutant: the fields are padded but a longer text is not cut to the field length.
CreateAuthPacketUncut(username, code) ==
    ToLeBytes(MAGIC_1) \o ToLeBytes(MAGIC_2) \o ToLeBytes(0) \o ToLeBytes(0)
    \o username \o Repeat(0, FIELD_LEN - Len(username))
    \o code \o Repeat(0, FIELD_LEN - Len(code))

\* CameraClient::create_auth_packet
CreateAuthPacket(username, code) ==
    ToLeBytes(MAGIC_1) \o ToLeBytes(MAGIC_2) \o ToLeBytes(0) \o ToLeBytes(0)
    \o ZeroPadded(username, FIELD_LEN) \o ZeroPadded(code, FIELD_LEN)

\* What the camera sends once authenticated: streams of at most two segments.
CamStreams == {s \in Streams : Len(s) <= 2}

CamAccessCodes == {<<49, 50, 51, 52>>, << >>, Repeat(49, FIELD_LEN)}

\* The error items of the stream: a failed read, and bytes left over at the end.
ReadError == [kind |-> "Err(io)", bytes |-> << >>, username |-> << >>, access_code |-> << >>]

BytesRemaining ==
    [kind |-> "Err(bytes remaining on stream)", bytes |-> << >>,
     username |-> << >>, access_code |-> << >>]

CamInit ==
    /\ cam_hostname \in Hostnames
    /\ cam_access_code \in CamAccessCodes
    /\ cam_pc = "connect"
    /\ tls_written = << >>
    /\ tls_flushed = 0
    /\ cam_result = "none"
    /\ segments \in CamStreams
    /\ fed = 0
    /\ jpeg_src = << >>
    /\ packets = << >>

\* connect_and_stream_codec returns an error through `?`.
CamFail ==
    /\ cam_pc' = "returned"
    /\ cam_result' = "Err"

\* 1) TcpStream::connect(&addr).await?
CamTcpConnect(ok) ==
    /\ cam_pc = "connect"
    /\ IF ok THEN cam_pc' = "tls" /\ UNCHANGED cam_result ELSE CamFail
    /\ UNCHANGED <<cam_hostname, cam_access_code, tls_written, tls_flushed, jpeg_vars>>

\* IpAddr::try_from(self.hostname.as_str()).unwrap() on a hostname that is no IP address
ServerNameFailure ==
    /\ cam_pc' = "panicked"
    /\ cam_result' = "panicked"

\* 3) the server name is built from the hostname, then connector.connect(..).await?
CamTlsConnect(ok) ==
    /\ cam_pc = "tls"
    /\ IF ~ParsesAsIp(cam_hostname) THEN ServerNameFailure
       ELSE IF ok THEN cam_pc' = "write" /\ UNCHANGED cam_result
       ELSE CamFail
    /\ UNCHANGED <<cam_hostname, cam_access_code, tls_written, tls_flushed, jpeg_vars>>

\* 4) tls_stream.write_all(&self.auth_packet).await?: a failed write may have
\* written a part of the packet.
CamWriteAll(ok, part) ==
    /\ cam_pc = "write"
    /\ LET auth_packet == CreateAuthPacket(CAMERA_USERNAME, cam_access_code)
       IN  IF ok
           THEN /\ tls_written' = tls_written \o auth_packet
                /\ cam_pc' = "flush"
                /\ UNCHANGED cam_result
           ELSE /\ tls_written' = tls_written \o SubSeq(auth_packet, 1, part)
                /\ CamFail
    /\ UNCHANGED <<cam_hostname, cam_access_code, tls_flushed, jpeg_vars>>

\* tls_stream.flush().await?, then 5) Framed::new and Ok(framed)
CamFlush(ok) ==
    /\ cam_pc = "flush"
    /\ IF ok
       THEN /\ tls_flushed' = Len(tls_written)
            /\ cam_pc' = "streaming"
            /\ cam_result' = "Ok"
       ELSE CamFail /\ UNCHANGED tls_flushed
    /\ UNCHANGED <<cam_hostname, cam_access_code, tls_written, jpeg_vars>>

\* The caller polls the stream: one byte is read and decode is called.
CamRead ==
    /\ cam_pc = "streaming"
    /\ JpegFeed
    /\ UNCHANGED cam_vars

\* The caller polls the stream and the read fails: the error is the next item
\* and the stream has ended.
CamReadError ==
    /\ cam_pc = "streaming"
    /\ packets' = Append(packets, ReadError)
    /\ cam_pc' = "ended after an error"
    /\ UNCHANGED <<cam_hostname, cam_access_code, tls_written, tls_flushed, cam_result,
                   segments, fed, jpeg_src>>

\* The peer closes the connection: the read returns no bytes.
CamPeerCloses ==
    /\ cam_pc = "streaming"
    /\ cam_pc' = "eof"
    /\ UNCHANGED <<cam_hostname, cam_access_code, tls_written, tls_flushed, cam_result,
                   jpeg_vars>>

\* Decoder::decode_eof, which JpegCodec does not override: bytes that are left
\* over when decode finds no packet are an error.
Leftover(b) == IF b = << >> THEN << >> ELSE <<BytesRemaining>>

\* The stream is polled at the end of the input: decode_eof is called, a packet
\* it finds is yielded, otherwise the stream ends.
CamDecodeEof ==
    /\ cam_pc = "eof"
    /\ LET out == JpegDecode(jpeg_src)
       IN  IF out.item # << >>
           THEN /\ packets' = packets \o out.item
                /\ jpeg_src' = out.src
                /\ UNCHANGED cam_pc
           ELSE /\ packets' = packets \o Leftover(jpeg_src)
                /\ cam_pc' = "ended after the peer closed"
                /\ UNCHANGED jpeg_src
    /\ UNCHANGED <<cam_hostname, cam_access_code, tls_written, tls_flushed, cam_result,
                   segments, fed>>

outside_cam == <<vars, ftp_vars, codec_vars, enc_vars, ser_vars, meta_vars>>

OutsideCamIdle == Init /\ FtpIdle /\ CodecIdle /\ EncIdle /\ SerIdle /\ MetaIdle

InitCam == CamInit /\ OutsideCamIdle

CamNext ==
    \/ \E ok \in BOOLEAN : CamTcpConnect(ok) /\ UNCHANGED outside_cam
    \/ \E ok \in BOOLEAN : CamTlsConnect(ok) /\ UNCHANGED outside_cam
    \/ \E ok \in BOOLEAN, part \in {0, 16} : CamWriteAll(ok, part) /\ UNCHANGED outside_cam
    \/ \E ok \in BOOLEAN : CamFlush(ok) /\ UNCHANGED outside_cam
    \/ CamRead /\ UNCHANGED outside_cam
    \/ CamReadError /\ UNCHANGED outside_cam
    \/ CamPeerCloses /\ UNCHANGED outside_cam
    \/ CamDecodeEof /\ UNCHANGED outside_cam

CamSpec == InitCam /\ [][CamNext]_<<cam_vars, jpeg_vars, outside_cam>>

----------------------------------------------------------------------------
\* Part 6 properties.

\* C24: connect_and_stream_codec writes one 80-byte preamble for ("bblp",
\* access code) and flushes it before it returns the stream and before any byte
\* of the stream is read; a step that fails makes it return an error, and then
\* no stream is returned: it never ends in another way.
C24_Handshake ==
    /\ cam_result = "Ok" =>
        /\ tls_written = AuthBytes(CAMERA_USERNAME, cam_access_code)
        /\ Len(tls_written) = 80
        /\ tls_flushed = 80
    /\ fed > 0 => cam_result = "Ok"
    /\ cam_result = "Err" => cam_pc = "returned" /\ fed = 0
    /\ cam_result \in {"none", "Ok", "Err"}

\* An error item of the stream.
IsErrorItem(p) == p.kind \notin {"Jpeg", "Auth"}

\* C25: when the peer closes the connection the stream ends without an error
\* item, whatever is left in the buffer; a failed read ends the stream too, and
\* does not abort.
C25_CleanEnd ==
    /\ cam_pc = "ended after the peer closed" =>
        \A i \in 1..Len(packets) : ~IsErrorItem(packets[i])
    /\ cam_pc \in {"ended after the peer closed", "ended after an error"}
        => cam_result = "Ok"

----------------------------------------------------------------------------
\* Properties of the typed helpers (part 1, under LedSpec).

\* The JSON text of an info/get_version command carrying S.
GetVersionText(S) ==
    [root |-> "info",
     body |-> <<Member("sequence_id", Str(S)), Member("command", Str("get_version"))>>]

\* The JSON text of a ledctrl command carrying S: chamber light, on or off,
\* 500/500/0/0.
LedCtrlText(S, on) ==
    [root |-> "system",
     body |-> <<Member("sequence_id", Str(S)),
                Member("command", Str("ledctrl")),
                Member("led_node", Str("chamber_light")),
                Member("led_mode", Str(IF on THEN "on" ELSE "off")),
                Member("led_on_time", Num(500)),
                Member("led_off_time", Num(500)),
                Member("loop_times", Num(0)),
                Member("interval_time", Num(0))>>]

\* The last helper call returned a reply to its caller.
HelperReturnedOk == result.op \in Helpers /\ result.status = "Ok"

\* C26. When get_version() or set_led(on) has returned Ok, the call's sequence
\* id S was used by no earlier call and the call consumed exactly one id; the
\* payload serialized for the call is the info/get_version command carrying S
\* (get_version) or the ledctrl command for the chamber light with the mode of
\* `on`, 500/500/0/0, carrying S (set_led); it was published on
\* device/{serial}/request; and the value returned is the Info reply
\* (get_version) or the System reply (set_led) carrying S.
C26_HelperCorrelation ==
    HelperReturnedOk =>
        LET k == NCalls
            S == calls[k].seq
        IN  /\ \A j \in 1..(k - 1) : calls[j].seq # S
            /\ sequence_id = k
            /\ ser_payload = IF result.op = "get_version"
                             THEN GetVersionText(S)
                             ELSE LedCtrlText(S, calls[k].on)
            /\ \E g \in Gens : \E i \in 1..Len(requests[g]) :
                  requests[g][i] = [req |-> "publish", seq |-> S,
                                    topic |-> <<"device", Serial, "request">>]
            /\ result.reply.variant = (IF result.op = "get_version" THEN "info" ELSE "system")
            /\ result.reply.sequence_id = S

\* The part of C26 that is about get_version, and the correlation of set_led.
HelperCorrelationButLedText ==
    HelperReturnedOk =>
        LET k == NCalls
            S == calls[k].seq
        IN  /\ \A j \in 1..(k - 1) : calls[j].seq # S
            /\ sequence_id = k
            /\ result.op = "get_version" => ser_payload = GetVersionText(S)
            /\ \E g \in Gens : \E i \in 1..Len(requests[g]) :
                  requests[g][i] = [req |-> "publish", seq |-> S,
                                    topic |-> <<"device", Serial, "request">>]
            /\ result.reply.variant = (IF result.op = "get_version" THEN "info" ELSE "system")
            /\ result.reply.sequence_id = S

----------------------------------------------------------------------------
\* Part 7: the JSON text of commands (src/src/mqtt/command.rs and its
\* submodules): one Command value is handed to serde_json::to_vec.

SequenceIds == {"0", "555", "999"}

Params == {"fast", "G28"}

Versions == {0, 1}

LedTimes == {0, 500}

Commands ==
    {GetVersion(s) : s \in SequenceIds}
    \cup {Pause(s) : s \in SequenceIds}
    \cup {Resume(s) : s \in SequenceIds}
    \cup {StopPrint(s) : s \in SequenceIds}
    \cup {PrintSpeed(s, p) : s \in SequenceIds, p \in Params}
    \cup {GcodeLine(s, p) : s \in SequenceIds, p \in Params}
    \cup {ExtrusionCalibrationGet(s, "GFL99", "0.4") : s \in SequenceIds}
    \cup {PushAll(s, t, v) : s \in SequenceIds, t \in Versions, v \in Versions}
    \cup {PushStart(s) : s \in SequenceIds}
    \cup {LedCtrl(s, m, a, b, l, 0) :
            s \in SequenceIds, m \in {"on", "off"}, a \in LedTimes, b \in LedTimes,
            l \in Versions}
    \cup {GetAccessories(s) : s \in SequenceIds}

SerInit ==
    /\ ser_command \in Commands
    /\ ser_payload = NoPayload

\* serde_json::to_vec(&command)
SerToVec ==
    /\ ser_payload = NoPayload
    /\ ser_payload' = ToVec(ser_command)
    /\ UNCHANGED ser_command

outside_ser == <<vars, ftp_vars, codec_vars, jpeg_vars, enc_vars, cam_vars, meta_vars>>

OutsideSerIdle ==
    Init /\ FtpIdle /\ CodecIdle /\ JpegIdle /\ EncIdle /\ CamIdle /\ MetaIdle

\* The initial states of Part 7: the other parts are idle.
InitSer == SerInit /\ OutsideSerIdle

SerNext == SerToVec /\ UNCHANGED outside_ser

SerSpec == InitSer /\ [][SerNext]_<<ser_vars, outside_ser>>

----------------------------------------------------------------------------
\* Properties of part 7.

\* The keys of an object's members.
Keys(body) == {body[i].key : i \in 1..Len(body)}

\* No key is written twice.
KeysOnce(body) == \A i, j \in 1..Len(body) : body[i].key = body[j].key => i = j

\* C27. Every Command serializes to an object with exactly one root key (info,
\* print, pushing or system) whose value is an object that holds sequence_id,
\* the command discriminator under "command", and the declared parameters of
\* the command and nothing else, each key once; pushall with the sequence id
\* "555" serializes to {"pushing":{"sequence_id":"555","command":"pushall"}}
\* and get_version with "999" to
\* {"info":{"sequence_id":"999","command":"get_version"}}.
C27_CommandJson ==
    ser_payload # NoPayload =>
        LET c == ser_command
            body == ser_payload.body
        IN  /\ ser_payload.root = c.root
            /\ c.root \in {"info", "print", "pushing", "system"}
            /\ KeysOnce(body)
            /\ Member("sequence_id", Str(c.sequence_id)) \in {body[i] : i \in 1..Len(body)}
            /\ Member("command", Str(VariantName[c.variant])) \in {body[i] : i \in 1..Len(body)}
            /\ Keys(body) = {"sequence_id", "command"} \cup Keys(c.fields)
            /\ \A i \in 1..Len(c.fields) : c.fields[i] \in {body[j] : j \in 1..Len(body)}
            /\ (c.variant = "PushAll" /\ c.sequence_id = "555") =>
                  ser_payload =
                      [root |-> "pushing",
                       body |-> <<Member("sequence_id", Str("555")),
                                  Member("command", Str("pushall"))>>]
            /\ (c.variant = "GetVersion" /\ c.sequence_id = "999") =>
                  ser_payload = GetVersionText("999")

\* What holds of every command but ledctrl and pushall.
CommandJsonOfTheOthers ==
    (ser_payload # NoPayload /\ ser_command.variant \notin {"LedCtrl", "PushAll"}) =>
        LET c == ser_command
            body == ser_payload.body
        IN  /\ ser_payload.root = c.root
            /\ KeysOnce(body)
            /\ body = <<Member("sequence_id", Str(c.sequence_id)),
                        Member("command", Str(VariantName[c.variant]))>> \o c.fields
            /\ (c.variant = "GetVersion" /\ c.sequence_id = "999") =>
                  ser_payload = GetVersionText("999")

----------------------------------------------------------------------------
\* Part 8: one line of a directory listing (src/src/file/ftp/metadata.rs).
\*
\* A line is a sequence of characters, each written as a one-character string.

\* Bound of the model: the number of tokens of a file name.
MaxNames == 2

TAB == "TAB"

IsWhitespace(c) == c \in {SP, TAB}

\* str::split_whitespace
RECURSIVE SplitWhitespace(_)
SplitWhitespace(s) ==
    IF s = << >> THEN << >>
    ELSE IF IsWhitespace(s[1]) THEN SplitWhitespace(Tail(s))
    ELSE LET ends == {i \in 1..Len(s) : IsWhitespace(s[i])}
             n == IF ends = {} THEN Len(s) ELSE Min(ends) - 1
         IN  <<SubSeq(s, 1, n)>> \o SplitWhitespace(SubSeq(s, n + 1, Len(s)))

\* [&str]::join(sep)
RECURSIVE JoinWith(_, _)
JoinWith(parts, sep) ==
    IF parts = << >> THEN << >>
    ELSE IF Len(parts) = 1 THEN parts[1]
    ELSE parts[1] \o sep \o JoinWith(Tail(parts), sep)

MetaErr(message) == [kind |-> "Err", message |-> message]

\* Permissions::from_chmod
FromChmod(chmod) ==
    IF Len(chmod) # 10 THEN MetaErr("Invalid chmod format")
    ELSE [kind |-> "Ok",
          directory |-> chmod[1] = "d",
          readable |-> chmod[2] = "r" /\ chmod[5] = "r" /\ chmod[8] = "r",
          writable |-> chmod[3] = "w" /\ chmod[6] = "w" /\ chmod[9] = "w",
          executable |-> chmod[4] = "x" /\ chmod[7] = "x" /\ chmod[10] = "x"]

\* str::parse::<u32>() and str::parse::<u64>() of a token of at most nine
\* digits, which fits in both.
ParseNumber(token) == ParseUnsigned(token, 999999999)

\* chrono's %b: the English month names (the tokens drawn here are the
\* capitalised three-letter abbreviations, or no month name at all).
MonthNames ==
    <<<<"J", "a", "n">>, <<"F", "e", "b">>, <<"M", "a", "r">>, <<"A", "p", "r">>,
      <<"M", "a", "y">>, <<"J", "u", "n">>, <<"J", "u", "l">>, <<"A", "u", "g">>,
      <<"S", "e", "p">>, <<"O", "c", "t">>, <<"N", "o", "v">>, <<"D", "e", "c">>>>

IsLeapYear(y) == (y % 4 = 0 /\ y % 100 # 0) \/ y % 400 = 0

DaysInMonth(y, m) ==
    IF m = 2 THEN (IF IsLeapYear(y) THEN 29 ELSE 28)
    ELSE IF m \in {4, 6, 9, 11} THEN 30 ELSE 31

\* chrono's %Y of an unsigned token: one to four digits.
ParseYear(token) ==
    IF AllDigits(token) /\ Len(token) <= 4
    THEN [ok |-> TRUE, value |-> DigitsValue(token)]
    ELSE [ok |-> FALSE, value |-> 0]

\* chrono's %H:%M of a token: one or two digits, ':', one or two digits, and
\* nothing after them; hours below 24, minutes below 60.
ParseTime(token) ==
    LET hm == Split(token, ":")
    IN  IF /\ Len(hm) = 2
           /\ AllDigits(hm[1]) /\ Len(hm[1]) <= 2 /\ DigitsValue(hm[1]) <= 23
           /\ AllDigits(hm[2]) /\ Len(hm[2]) <= 2 /\ DigitsValue(hm[2]) <= 59
        THEN [ok |-> TRUE, hour |-> DigitsValue(hm[1]), minute |-> DigitsValue(hm[2])]
        ELSE [ok |-> FALSE, hour |-> 0, minute |-> 0]

\* NaiveDateTime::parse_from_str(.., "%Y %b %d %H:%M") of the text formatted
\* from a year, the month token, the day and a time.
ParseFromStr(year, month, day, time) ==
    IF /\ year.ok
       /\ time.ok
       /\ \E m \in 1..12 : MonthNames[m] = month /\ day \in 1..DaysInMonth(year.value, m)
    THEN [ok |-> TRUE,
          date |-> [year |-> year.value,
                    month |-> CHOOSE m \in 1..12 : MonthNames[m] = month,
                    day |-> day, hour |-> time.hour, minute |-> time.minute]]
    ELSE [ok |-> FALSE, date |-> [year |-> 0, month |-> 0, day |-> 0, hour |-> 0, minute |-> 0]]

Midnight == [ok |-> TRUE, hour |-> 0, minute |-> 0]

\* Mutant: the file name is the first of its tokens.
FilenameFirstToken(parts) == parts[9]

\* parts[8..].join(" ")
Filename(parts) == JoinWith(SubSeq(parts, 9, Len(parts)), <<SP>>)

\* impl FromStr for FileMetadata
FromStr(s, year_now) ==
    LET parts == SplitWhitespace(s) IN
    IF Len(parts) < 9 THEN MetaErr("Invalid FTP LIST line")
    ELSE
    LET chmod == FromChmod(parts[1])
        size == ParseNumber(parts[5])
        day == ParseNumber(parts[7])
        year_or_time == parts[8]
    IN  IF chmod.kind = "Err" THEN chmod
        ELSE IF ~size.ok THEN MetaErr("Invalid size format")
        ELSE IF ~day.ok THEN MetaErr("Invalid day format")
        ELSE
        LET with_time == Has(year_or_time, ":", 1, Len(year_or_time))
            parsed == IF with_time
                      THEN ParseFromStr([ok |-> TRUE, value |-> year_now], parts[6],
                                        day.value, ParseTime(year_or_time))
                      ELSE ParseFromStr(ParseYear(year_or_time), parts[6],
                                        day.value, Midnight)
        IN  IF ~parsed.ok
            THEN MetaErr(IF with_time THEN "Invalid time format" ELSE "Invalid date format")
            ELSE [kind |-> "Ok", chmod |-> chmod, user |-> parts[3], group |-> parts[4],
                  size |-> size.value, date |-> parsed.date, filename |-> Filename(parts)]

\* The tokens a server writes.
Chmods ==
    {<<"d", "r", "w", "-", "r", "w", "-", "r", "w", "-">>,
     <<"-", "r", "w", "x", "r", "w", "x", "r", "w", "x">>,
     <<"d", "r", "w", "x">>}

SizeTokens == {<<"0">>, <<"4", "2">>, <<"4", "x">>}

MonthTokens == {MonthNames[1], MonthNames[2], <<"F", "o", "o">>}

DayTokens == {<<"0", "1">>, <<"2", "9">>, <<"3", "0">>, <<"x">>}

YearOrTimeTokens ==
    {<<"1", "9", "8", "0">>, <<"2", "0", "2", "4">>,
     <<"0", "1", ":", "2", "7">>, <<"2", "4", ":", "0", "0">>, <<"1", ":", "5">>}

NameTokens == {<<"f", "o", "o">>, <<"b", ".", "3", "m", "f">>}

RECURSIVE SeqsUpTo(_, _)
SeqsUpTo(S, n) ==
    IF n = 0 THEN {<< >>}
    ELSE SeqsUpTo(S, n - 1) \cup
         {Append(q, x) : q \in {r \in SeqsUpTo(S, n - 1) : Len(r) = n - 1}, x \in S}

Gaps == {<<SP>>, <<SP, SP, TAB>>}

Years == {2024, 2025}

MetaInit ==
    /\ current_year \in Years
    /\ \E chmod \in Chmods, size \in SizeTokens, month \in MonthTokens, day \in DayTokens,
          year_or_time \in YearOrTimeTokens, names \in SeqsUpTo(NameTokens, MaxNames),
          gap \in Gaps :
          /\ meta_tokens = <<chmod, <<"1">>, <<"u", "s", "r", "1">>, <<"g", "r", "p">>,
                             size, month, day, year_or_time>> \o names
          /\ meta_line = JoinWith(meta_tokens, gap)
    /\ meta_result = NotParsed

\* FileMetadata::from_str(line)
MetaFromStr ==
    /\ meta_result = NotParsed
    /\ meta_result' = FromStr(meta_line, current_year)
    /\ UNCHANGED <<current_year, meta_tokens, meta_line>>

outside_meta == <<vars, ftp_vars, codec_vars, jpeg_vars, enc_vars, cam_vars, ser_vars>>

OutsideMetaIdle ==
    Init /\ FtpIdle /\ CodecIdle /\ JpegIdle /\ EncIdle /\ CamIdle /\ SerIdle

\* The initial states of Part 8: the other parts are idle.
InitMeta == MetaInit /\ OutsideMetaIdle

MetaNext == MetaFromStr /\ UNCHANGED outside_meta

MetaSpec == InitMeta /\ [][MetaNext]_<<meta_vars, outside_meta>>

----------------------------------------------------------------------------
\* Properties of part 8.

\* The fields of the line are well formed: a mode of ten characters, numbers
\* for size and day, a month name, and a day of that month in the year meant.
WellFormed(t, year_now) ==
    /\ Len(t[1]) = 10
    /\ AllDigits(t[5])
    /\ AllDigits(t[7])
    /\ \E m \in 1..12 :
          /\ MonthNames[m] = t[6]
          /\ \/ /\ ":" \in {t[8][i] : i \in 1..Len(t[8])}
                /\ ParseTime(t[8]).ok
                /\ DigitsValue(t[7]) \in 1..DaysInMonth(year_now, m)
             \/ /\ AllDigits(t[8]) /\ Len(t[8]) <= 4
                /\ DigitsValue(t[7]) \in 1..DaysInMonth(DigitsValue(t[8]), m)

\* C28. A line with fewer than 9 whitespace-delimited tokens is rejected with
\* an error. A line with at least 9 tokens is parsed when its fields are well
\* formed, and whenever it is parsed the file name is tokens 8..end joined by
\* single spaces, user, group and size are tokens 2, 3 and 4, and the timestamp
\* is the HH:MM of token 7 in the current year when token 7 contains ':' and
\* 00:00 in the year of token 7 otherwise (tokens counted from 0).
C28_ListingParse ==
    meta_result # NotParsed =>
        LET t == meta_tokens IN
        /\ Len(t) < 9 => meta_result = MetaErr("Invalid FTP LIST line")
        /\ (Len(t) >= 9 /\ WellFormed(t, current_year)) => meta_result.kind = "Ok"
        /\ (Len(t) >= 9 /\ meta_result.kind = "Ok") =>
              /\ meta_result.filename = JoinWith(SubSeq(t, 9, Len(t)), <<SP>>)
              /\ meta_result.user = t[3]
              /\ meta_result.group = t[4]
              /\ meta_result.size = DigitsValue(t[5])
              /\ IF ":" \in {t[8][i] : i \in 1..Len(t[8])}
                 THEN /\ meta_result.date.year = current_year
                      /\ meta_result.date.hour = DigitsValue(Split(t[8], ":")[1])
                      /\ meta_result.date.minute = DigitsValue(Split(t[8], ":")[2])
                 ELSE /\ meta_result.date.year = DigitsValue(t[8])
                      /\ meta_result.date.hour = 0
                      /\ meta_result.date.minute = 0

\* A line whose file name has two tokens, separated by more than one blank, was
\* parsed, with a time in token 7.
C28_Witness ==
    /\ meta_result # NotParsed
    /\ meta_result.kind = "Ok"
    /\ Len(meta_tokens) = 10
    /\ Len(meta_line) > Len(JoinWith(meta_tokens, <<SP>>))
    /\ meta_result.date.hour = 1
    /\ meta_result.date.year = current_year

----------------------------------------------------------------------------
\* Properties of the client's lifecycle (part 1, under Spec).

\* The step hands a command to the transport handle of generation g.
PublishesThrough(g) ==
    /\ Len(requests'[g]) = Len(requests[g]) + 1
    /\ requests'[g][Len(requests'[g])].req = "publish"

\* C29. After stop() the client has released its connection handle: when stop()
\* has returned, the client holds no transport handle, and while the client
\* is stopped no command is handed to a transport handle.
C29_StopReleasesHandle ==
    /\ [](result = Returned("stop", "Ok") => client = 0)
    /\ [][stop_flag => \A g \in Gens : ~PublishesThrough(g)]_vars

\* The second half of C29 alone.
NoPublishWhileStopped ==
    [][stop_flag => \A g \in Gens : ~PublishesThrough(g)]_vars

\* C30. Inflight keys are unique at insertion time: whenever a send inserts its
\* sequence id, the id is not a key of the inflight table, and no step changes
\* the slot kept under a key that stays in the table; this holds whatever
\* entries earlier calls left behind (a failed publish, an abandoned call) and
\* across stop() and start().
C30_UniqueAtInsertion ==
    [][/\ SendInsert => calls[CurrentCall].seq \notin DOMAIN inflight_commands
       /\ \A s \in DOMAIN inflight_commands :
             s \in DOMAIN inflight_commands' =>
                 inflight_commands'[s] = inflight_commands[s]]_vars

\* After a restart, a call has inserted its entry next to the entry that an
\* earlier, finished call left in the table.
C30_Witness ==
    \E j, k \in Calls :
        /\ j < k
        /\ calls[j].pc = "finished"
        /\ HasEntry(j)
        /\ calls[k].pc \in {"publish", "await"}
        /\ HasEntry(k)
        /\ client >= 2

----------------------------------------------------------------------------
\* More properties of part 4.

\* The first sixteen bytes of an authentication packet: 0x40, 0x3000, 0, 0 as
\* little-endian u32.
AuthMagic == <<64, 0, 0, 0, 0, 48, 0, 0, 0, 0, 0, 0, 0, 0, 0, 0>>

HeadedByAuth(b) == Len(b) >= 80 /\ SubSeq(b, 1, 16) = AuthMagic

\* C31. Decoder precedence: a call of decode on a buffer of at least 80 bytes
\* whose first 16 bytes are the auth magic emits Auth and consumes exactly the
\* first 80 bytes, the later bytes staying as they were, whatever else the
\* buffer holds and wherever in the stream the call is made; on any other buffer
\* a packet that is emitted is a Jpeg packet.
C31_AuthFirst ==
    [][IF HeadedByAuth(jpeg_src)
       THEN /\ Len(packets') = Len(packets) + 1
            /\ SubSeq(packets', 1, Len(packets)) = packets
            /\ packets'[Len(packets')].kind = "Auth"
            /\ jpeg_src' = SubSeq(jpeg_src, 81, Len(jpeg_src))
       ELSE packets' # packets =>
            /\ Len(packets') = Len(packets) + 1
            /\ packets'[Len(packets')].kind = "Jpeg"]_jpeg_vars

\* In the middle of a stream, Auth was emitted from a buffer that also held a
\* complete frame, and the frame is what the buffer is left with.
C31_Witness ==
    /\ Len(segments) = 3
    /\ segments[1].kind = "frame"
    /\ segments[2].kind = "garbage"
    /\ segments[3].kind = "frame"
    /\ Len(packets) = 2
    /\ packets[1] = Jpeg(segments[1].bytes)
    /\ packets[2].kind = "Auth"
    /\ jpeg_src = segments[3].bytes

\* C32. JpegCodec::decode never returns an error and never aborts: fed any
\* stream byte by byte, every call either returns "need more" and emits
\* nothing, or emits one packet, which is an Auth or a Jpeg packet.
C32_DecodeNeverFails ==
    [][\/ packets' = packets
       \/ /\ Len(packets') = Len(packets) + 1
          /\ SubSeq(packets', 1, Len(packets)) = packets
          /\ packets'[Len(packets')].kind \in {"Auth", "Jpeg"}]_jpeg_vars

\* The whole stream has been fed: calls returned packets, and the last calls
\* returned "need more" on bytes that are still buffered.
C32_Witness ==
    /\ segments # << >>
    /\ fed = Len(Concat(segments))
    /\ Len(packets) >= 2
    /\ \E i \in 1..Len(packets) : packets[i].kind = "Auth"
    /\ \E i \in 1..Len(packets) : packets[i].kind = "Jpeg"
    /\ jpeg_src # << >>

----------------------------------------------------------------------------
\* Properties of the pump (part 1, under Spec).

\* The number of disconnect requests pump g has issued.
Disconnects(g) == Cardinality({i \in 1..Len(requests[g]) : requests[g][i] = Disconnect})

\* The step takes pump g out of its loop.
LeavesLoop(g) == pump[g] = "poll" /\ pump'[g] # "poll"

\* C33. The pump issues a disconnect on every exit path of its loop: a step
\* that takes a pump out of its loop because the stop flag was observed, the
\* transport reported an error or the subscribe failed appends the disconnect
\* to the requests of that pump's handle; no pump issues more than one
\* disconnect, and none while it is still polling.
C33_DisconnectOnExit ==
    /\ [](\A g \in Gens : Disconnects(g) <= 1 /\ (pump[g] = "poll" => Disconnects(g) = 0))
    /\ [][\A g \in Gens :
            (LeavesLoop(g) /\ (PumpStopObserved(g) \/ PumpError(g) \/ PumpConnAck(g, FALSE)))
                => requests'[g] = Append(requests[g], Disconnect)]_vars

\* C33 without the transport error: the stop flag and the subscribe failure.
DisconnectOnBreak ==
    /\ [](\A g \in Gens : Disconnects(g) <= 1 /\ (pump[g] = "poll" => Disconnects(g) = 0))
    /\ [][\A g \in Gens :
            (LeavesLoop(g) /\ (PumpStopObserved(g) \/ PumpConnAck(g, FALSE)))
                => requests'[g] = Append(requests[g], Disconnect)]_vars

\* C34. Delivering a reply never terminates the pump: when a pump handles a
\* reply whose sequence id is a key of the inflight table and whose waiter has
\* given up the wait, the entry is removed, no waiter's channel changes, and
\* the pump stays in its loop.
C34_AbandonedReplyKeepsPump ==
    [][\A g \in Polling :
        \A p \in {q \in Payloads : Routable(q) /\ q.sequence_id \in DOMAIN inflight_commands} :
            (~RxAlive(inflight_commands[p.sequence_id]) /\ PumpPublish(g, p)) =>
                /\ p.sequence_id \notin DOMAIN inflight_commands'
                /\ slot' = slot
                /\ pump'[g] = "poll"]_vars

\* C35. Inflight entries are removed only by the pump when it handles a
\* non-push reply carrying their sequence id: a step after which a key is
\* missing from the table is a pump handling such a reply for that key, and it
\* removes that key only; a send whose publish fails returns the error and
\* leaves the table as it was, and so do a caller that abandons the wait,
\* stop() and start().
C35_RemovedOnlyByReply ==
    [][/\ \A s \in DOMAIN inflight_commands :
            s \notin DOMAIN inflight_commands' =>
                /\ \E g \in Polling :
                     \E p \in {q \in Payloads : Routable(q) /\ q.sequence_id = s} :
                         PumpPublish(g, p)
                /\ DOMAIN inflight_commands' = DOMAIN inflight_commands \ {s}
       /\ (caller \in Helpers /\ result' = Returned(caller, "Err")) =>
            inflight_commands' = inflight_commands
       /\ (caller \in Helpers /\ result' = Returned(caller, "abandoned")) =>
            inflight_commands' = inflight_commands
       /\ stop_flag' # stop_flag => inflight_commands' = inflight_commands]_vars

\* A publish failed on a stopped client and the call returned the error; its
\* entry and the entry of an abandoned call are both in the table.
C35_Witness ==
    /\ result.op \in Helpers
    /\ result.status = "Err"
    /\ stop_flag
    /\ HasEntry(NCalls)
    /\ \E j \in Calls : j < NCalls /\ calls[j].pc = "finished" /\ HasEntry(j)

\* C36. At most one reply is delivered per send: a waiter's channel is filled
\* only while it is empty, and only by a reply carrying the waiter's sequence
\* id, which removes the entry; once a call holds or has returned its reply its
\* sequence id is not a key of the table; and a reply whose sequence id is not
\* a key (a second reply for the same send) changes nothing: the table, the
\* channels and the pump stay as they were.
C36_OneReplyPerSend ==
    /\ [](\A k \in Calls : slot[k] # NoMsg => calls[k].seq \notin DOMAIN inflight_commands)
    /\ [][\A k \in Calls :
            (slot'[k] # slot[k] /\ slot'[k] # NoMsg) =>
                /\ slot[k] = NoMsg
                /\ slot'[k].sequence_id = calls[k].seq
                /\ calls[k].seq \in DOMAIN inflight_commands
                /\ calls[k].seq \notin DOMAIN inflight_commands']_vars
    /\ [][\A g \in Polling :
            \A p \in {q \in Payloads :
                        Routable(q) /\ q.sequence_id \notin DOMAIN inflight_commands} :
                PumpPublish(g, p) => UNCHANGED vars]_vars

\* A helper has returned the reply for its send, and the pump that delivered
\* it is polling: the same reply can arrive once more.
C36_Witness ==
    /\ result.op \in Helpers
    /\ result.status = "Ok"
    /\ pump[client] = "poll"
    /\ calls[NCalls].seq \notin DOMAIN inflight_commands
    /\ ENABLED PumpPublish(client, [root |-> result.reply.variant,
                                    command |-> result.reply.command,
                                    sequence_id |-> calls[NCalls].seq])

\* C37. A pump that is in its loop when stop() has returned eventually is out
\* of its loop, together with every pump started before it, whatever the
\* application does next (a start() right after the stop() included): only the
\* newest pump can stay alive.
C37_StopThenStart ==
    \A g \in Gens :
        (pump[g] = "poll" /\ result = Returned("stop", "Ok"))
            ~> (\A h \in Gens : h <= g => pump[h] # "poll")

----------------------------------------------------------------------------
\* More properties of part 2.

\* What a server writes on the control connection, in order, when it greets,
\* answers each command of a listing, replies 150 to LIST, sends 226 when the
\* data transfer is complete, and answers QUIT.
ServerStream == <<220, 331, 230, 200, 200, 257, 227, 150, 226, 221>>

\* The server's reply to each command.
ReplyCode(cmd) ==
    CASE cmd = "USER" -> 331
      [] cmd = "PASS" -> 230
      [] cmd = "PBSZ 0" -> 200
      [] cmd = "PROT P" -> 200
      [] cmd = "PWD" -> 257
      [] cmd = "PASV" -> 227
      [] cmd = "LIST" -> 150
      [] cmd = "QUIT" -> 221

ReceivedReplies == SelectSeq(control, LAMBDA e : e.dir = "recv")

\* Everything read from the control connection so far is what such a server
\* wrote, in the order it wrote it.
ServerConforms ==
    /\ Len(ReceivedReplies) <= Len(ServerStream)
    /\ \A i \in 1..Len(ReceivedReplies) :
          /\ ReceivedReplies[i].reply.kind = "reply"
          /\ ReceivedReplies[i].reply.code = ServerStream[i]

\* C38. Against such a server, every response read after a command is the
\* server's reply to that command (so the response quit() accepts is the reply
\* to its QUIT), and when get_files has returned its listing the client has
\* read everything the server wrote.
C38_ControlPairing ==
    ServerConforms =>
        /\ \A i \in 1..Len(control) :
              (control[i].dir = "send" /\ i < Len(control)) =>
                  control[i + 1].reply.code = ReplyCode(control[i].cmd)
        /\ files = "Ok" => Len(ReceivedReplies) = Len(ServerStream)

----------------------------------------------------------------------------
\* The two writers of the authentication packet.

\* C39. For every username and access code, of any length, the bytes
\* JpegCodec::encode appends for Auth{u, a} are the bytes
\* CameraClient::create_auth_packet(u, a) returns: once the Auth packet of the
\* outbox is encoded, dst starts with these bytes, and holds nothing else while
\* no other packet is encoded.
C39_AuthPacketsAgree ==
    (outbox[1].kind = "Auth" /\ encoded >= 1) =>
        LET packet == CreateAuthPacket(outbox[1].username, outbox[1].access_code) IN
            /\ Len(packet) = AUTH_LEN
            /\ Len(dst) >= AUTH_LEN
            /\ Slice(dst, 0, AUTH_LEN) = packet
            /\ encoded = 1 => dst = packet

\* An Auth packet whose username and access code are both longer than their
\* fields has been encoded.
C39_Witness ==
    /\ outbox[1].kind = "Auth"
    /\ Len(outbox[1].username) > FIELD_LEN
    /\ Len(outbox[1].access_code) > FIELD_LEN
    /\ encoded = 1
    /\ Len(dst) = AUTH_LEN

====
